---- MODULE Spec2Model ----
(***************************************************************************)
(* A model of the query orchestration layer (QueryManager) of the client:  *)
(* the fetch lifecycle, request ids, the fetch-promise table, polling      *)
(* timers, store reset and the broadcast of store changes to listeners.    *)
(*                                                                         *)
(* A query document is abstracted to the set of root fields it selects; a  *)
(* field called with variables v occupies the storage slot <<field, v>> of *)
(* ROOT_QUERY.  A transport response carries one value for every field of  *)
(* the selection that was sent.                                            *)
(***************************************************************************)
EXTENDS Integers, FiniteSets, Sequences, TLC

\* ---------------------------------------------------------------- bounds
MaxId == 3          \* ids (query ids and request ids) the counter may issue
MaxTimers == 2      \* setInterval calls
MaxIdShared == 4    \* ids the counter may issue when two queries share the store
MaxWrites == 2      \* writeQueryToStore passes
MaxSources == 3     \* sources of one call of mergeDeep
MaxInits == 2       \* calls of init on the fragment matcher

Fields == {"a", "b"}
Selections == {{"a"}, {"a", "b"}}
VariableValues == {1, 2}
PollIntervals == {0, 50}
\* the values the server may answer with
Values == {"v1", "v2"}
NoValue == "none"

NoTimer == 0
NoSelection == {}            \* a null minimizedQuery
Null == "null"
EmptyData == [k \in {} |-> NoValue]

\* ------------------------------------------------------------ the state
VARIABLES
  idCounter,           \* QueryManager.idCounter
  queryListeners,      \* QueryManager.queryListeners: ids that have a listener
  options,             \* the options object of every watchQuery subscription
  errorCb,             \* whether the observer of a subscription has an error callback
  pollingTimers,       \* QueryManager.pollingTimers: query id -> timer
  pollingTimer,        \* the timer captured by the subscription's closure
  armed,               \* timers that are armed
  timerQuery,          \* the query id each timer polls
  fetchQueryPromises,  \* QueryManager.fetchQueryPromises: query id -> handle
  requests,            \* every fetch issued: its request, its promise, its fate
  apollo,              \* the Apollo state held by the state container
  currentStoreData,    \* the state the store subscriber saw last
  observer,            \* what each subscription's observer has received
  batcher,             \* QueryManager.batcher: shouldBatch and the queued requests
  transport,           \* the calls the batcher made on the network interface
  unsubscribed,        \* the subscriptions that were unsubscribed
  hostState,           \* the slice of the state container the host application owns
  matcher,             \* the fragment matcher: its options, isReady, readyPromise, map
  matched,             \* the last call of match(): its arguments and what it did
  policies,            \* StoreWriter.policies: identity, possible types, merge functions
  entityStore,         \* the NormalizedCache the writer writes to
  lastWrite,           \* the last writeQueryToStore pass: its arguments and what it did
  workSet,             \* the work set of one processSelectionSet call, selection by selection
  heap,                \* the objects handed to and made by mergeDeep, by address
  merged               \* the last call of mergeDeep: its sources and its result

\* the state of the QueryManager and of the state container
managerVars == <<idCounter, queryListeners, options, errorCb, pollingTimers,
                 pollingTimer, armed, timerQuery, fetchQueryPromises, requests,
                 apollo, currentStoreData, observer, batcher, transport,
                 unsubscribed, hostState>>

\* the state of the components the QueryManager is handed
matcherVars == <<matcher, matched>>
writerVars == <<policies, entityStore, lastWrite, workSet>>
mergeVars == <<heap, merged>>
componentVars == <<matcherVars, writerVars, mergeVars>>

vars == <<managerVars, componentVars>>

\* The machine state as one record, so that the operations compose.
Cur ==
  [idCounter |-> idCounter, queryListeners |-> queryListeners,
   options |-> options, errorCb |-> errorCb,
   pollingTimers |-> pollingTimers, pollingTimer |-> pollingTimer,
   armed |-> armed, timerQuery |-> timerQuery,
   fetchQueryPromises |-> fetchQueryPromises, requests |-> requests,
   apollo |-> apollo, currentStoreData |-> currentStoreData,
   observer |-> observer, batcher |-> batcher, transport |-> transport]

Becomes(S) ==
  /\ idCounter' = S.idCounter
  /\ queryListeners' = S.queryListeners
  /\ options' = S.options
  /\ errorCb' = S.errorCb
  /\ pollingTimers' = S.pollingTimers
  /\ pollingTimer' = S.pollingTimer
  /\ armed' = S.armed
  /\ timerQuery' = S.timerQuery
  /\ fetchQueryPromises' = S.fetchQueryPromises
  /\ requests' = S.requests
  /\ apollo' = S.apollo
  /\ currentStoreData' = S.currentStoreData
  /\ observer' = S.observer
  /\ batcher' = S.batcher
  /\ transport' = S.transport

\* f with key k set to v (k is added to the domain when it is new)
Put(f, k, v) == [x \in DOMAIN f \cup {k} |-> IF x = k THEN v ELSE f[x]]
\* f without key k
Del(f, k) == [x \in DOMAIN f \ {k} |-> f[x]]
\* timer t of query id q, or NoTimer
TimerOf(timers, q) == IF q \in DOMAIN timers THEN timers[q] ELSE NoTimer

\* --------------------------------------------------- store: write / read
StorageKeys(sel, variables) == {<<f, variables>> : f \in sel}

\* writeSelectionSetToStore: every field of the selection gets the value
WriteSelectionSet(data, sel, variables, val) ==
  [k \in DOMAIN data \cup StorageKeys(sel, variables) |->
     IF k \in StorageKeys(sel, variables) THEN val ELSE data[k]]

\* diffSelectionSetAgainstStore: the fields of the selection not in the store
MissingSelection(data, sel, variables) ==
  {f \in sel : <<f, variables>> \notin DOMAIN data}

\* the part of the selection the store holds
PartialResult(data, sel, variables) ==
  [f \in sel \ MissingSelection(data, sel, variables) |-> data[<<f, variables>>]]

\* readSelectionSetFromStore: throws on a missing field unless returnPartialData
ReadSelectionSet(data, sel, variables, returnPartialData) ==
  IF MissingSelection(data, sel, variables) = {} \/ returnPartialData
  THEN [ok |-> TRUE, data |-> PartialResult(data, sel, variables)]
  ELSE [ok |-> FALSE, data |-> EmptyData]

\* ------------------------------------------------------------- reducers
EmptyApolloState ==
  [queries |-> EmptyData, mutations |-> EmptyData, data |-> EmptyData,
   optimistic |-> <<>>]

Stale(queries, action) ==
  \/ action.queryId \notin DOMAIN queries
  \/ action.requestId < queries[action.queryId].lastRequestId

QueriesReducer(queries, action) ==
  CASE action.type = "APOLLO_QUERY_INIT" ->
         Put(queries, action.queryId,
             [query |-> action.query,
              minimizedQuery |-> action.minimizedQuery,
              variables |-> action.variables,
              loading |-> TRUE,
              networkError |-> Null,
              graphQLErrors |-> Null,
              forceFetch |-> action.forceFetch,
              returnPartialData |-> action.returnPartialData,
              lastRequestId |-> action.requestId])
    [] action.type = "APOLLO_QUERY_RESULT" ->
         IF Stale(queries, action) THEN queries
         ELSE [queries EXCEPT ![action.queryId] =
                 [@ EXCEPT !.loading = FALSE, !.networkError = Null,
                           !.graphQLErrors = action.result.errors]]
    [] action.type = "APOLLO_QUERY_ERROR" ->
         IF Stale(queries, action) THEN queries
         ELSE [queries EXCEPT ![action.queryId] =
                 [@ EXCEPT !.loading = FALSE, !.networkError = action.error]]
    [] action.type = "APOLLO_QUERY_RESULT_CLIENT" ->
         IF action.queryId \notin DOMAIN queries THEN queries
         ELSE [queries EXCEPT ![action.queryId] =
                 [@ EXCEPT !.loading = action.complete, !.networkError = Null]]
    [] action.type = "APOLLO_QUERY_STOP" -> Del(queries, action.queryId)
    [] action.type = "APOLLO_STORE_RESET" -> EmptyData
    [] OTHER -> queries

MutationsReducer(mutations, action) ==
  CASE action.type = "APOLLO_MUTATION_INIT" ->
         Put(mutations, action.mutationId, [loading |-> TRUE])
    [] action.type = "APOLLO_MUTATION_RESULT" ->
         IF action.mutationId \notin DOMAIN mutations THEN mutations
         ELSE [mutations EXCEPT ![action.mutationId] = [loading |-> FALSE]]
    [] action.type = "APOLLO_STORE_RESET" -> EmptyData
    [] OTHER -> mutations

\* the data reducer sees the query records as they were before the action
DataReducer(data, action, queries) ==
  CASE action.type = "APOLLO_QUERY_RESULT" ->
         IF Stale(queries, action) \/ action.result.errors # Null THEN data
         ELSE WriteSelectionSet(data,
                                queries[action.queryId].minimizedQuery,
                                queries[action.queryId].variables,
                                action.result.data)
    [] action.type = "APOLLO_MUTATION_RESULT" ->
         IF action.result.errors # Null THEN data
         ELSE Put(data, <<"ROOT_MUTATION", 0>>, action.result.data)
    [] action.type = "APOLLO_STORE_RESET" -> EmptyData
    [] OTHER -> data

ApolloReducer(state, action) ==
  [queries |-> QueriesReducer(state.queries, action),
   mutations |-> MutationsReducer(state.mutations, action),
   data |-> DataReducer(state.data, action, state.queries),
   optimistic |-> <<>>]

\* an action of the host application, and the host's own reducer
HostAction == [type |-> "TOGGLE"]

HostReducer(state, action) == IF action.type = "TOGGLE" THEN TRUE ELSE state

\* ------------------------------------------------ listeners / broadcast
NoResult == [kind |-> "none", data |-> EmptyData]
NewObserver == [next |-> 0, error |-> 0, logged |-> 0, threw |-> FALSE,
                last |-> NoResult]

\* a listener that throws a network error its observer cannot take
QueryListenerThrowsUnhandled(o, hasRec, rec, data, opts, hasErrorCb) ==
  IF ~hasRec THEN [o EXCEPT !.threw = TRUE]
  ELSE IF rec.loading /\ ~rec.returnPartialData THEN o
  ELSE IF rec.graphQLErrors # Null
    THEN [o EXCEPT !.next = @ + 1,
                   !.last = [kind |-> "errors", data |-> EmptyData]]
  ELSE IF rec.networkError # Null
    THEN IF hasErrorCb
         THEN [o EXCEPT !.error = @ + 1,
                        !.last = [kind |-> "networkError", data |-> EmptyData]]
         ELSE [o EXCEPT !.threw = TRUE]
  ELSE LET read == ReadSelectionSet(data, rec.query, rec.variables,
                                    opts.returnPartialData)
       IN IF read.ok
          THEN [o EXCEPT !.next = @ + 1,
                         !.last = [kind |-> "data", data |-> read.data]]
          ELSE [o EXCEPT !.threw = TRUE]

\* a listener that does not look at loading
QueryListenerIgnoresLoading(o, hasRec, rec, data, opts, hasErrorCb) ==
  IF ~hasRec THEN [o EXCEPT !.threw = TRUE]
  ELSE IF rec.graphQLErrors # Null
    THEN [o EXCEPT !.next = @ + 1,
                   !.last = [kind |-> "errors", data |-> EmptyData]]
  ELSE IF rec.networkError # Null
    THEN IF hasErrorCb
         THEN [o EXCEPT !.error = @ + 1,
                        !.last = [kind |-> "networkError", data |-> EmptyData]]
         ELSE [o EXCEPT !.logged = @ + 1]
  ELSE LET read == ReadSelectionSet(data, rec.query, rec.variables, TRUE)
       IN [o EXCEPT !.next = @ + 1,
                    !.last = [kind |-> "data", data |-> read.data]]

\* The listener watchQuery registers for its observer.  rec is the query's
\* bookkeeping record (absent: OK is FALSE and reading rec.loading throws).
QueryListener(o, hasRec, rec, data, opts, hasErrorCb) ==
  IF ~hasRec THEN [o EXCEPT !.threw = TRUE]
  ELSE IF rec.loading /\ ~rec.returnPartialData THEN o
  ELSE IF rec.graphQLErrors # Null
    THEN [o EXCEPT !.next = @ + 1,
                   !.last = [kind |-> "errors", data |-> EmptyData]]
  ELSE IF rec.networkError # Null
    THEN IF hasErrorCb
         THEN [o EXCEPT !.error = @ + 1,
                        !.last = [kind |-> "networkError", data |-> EmptyData]]
         ELSE [o EXCEPT !.logged = @ + 1]
  ELSE LET read == ReadSelectionSet(data, rec.query, rec.variables,
                                    opts.returnPartialData)
       IN IF read.ok
          THEN [o EXCEPT !.next = @ + 1,
                         !.last = [kind |-> "data", data |-> read.data]]
          ELSE [o EXCEPT !.threw = TRUE]

\* a broadcast that stops after the first registered listener
BroadcastQueriesFirstOnly(S) ==
  [S EXCEPT !.observer =
     [q \in DOMAIN S.observer |->
        IF q \in S.queryListeners /\ \A p \in S.queryListeners : q <= p
        THEN QueryListener(S.observer[q],
                           q \in DOMAIN S.apollo.queries,
                           IF q \in DOMAIN S.apollo.queries
                             THEN S.apollo.queries[q] ELSE EmptyData,
                           S.apollo.data, S.options[q], S.errorCb[q])
        ELSE S.observer[q]]]

\* broadcastQueries: every registered listener gets its own record
BroadcastQueries(S) ==
  [S EXCEPT !.observer =
     [q \in DOMAIN S.observer |->
        IF q \in S.queryListeners
        THEN QueryListener(S.observer[q],
                           q \in DOMAIN S.apollo.queries,
                           IF q \in DOMAIN S.apollo.queries
                             THEN S.apollo.queries[q] ELSE EmptyData,
                           S.apollo.data, S.options[q], S.errorCb[q])
        ELSE S.observer[q]]]

\* a subscriber whose listeners read the state it saw the time before
StoreSubscriberLate(S) ==
  LET unchanged == S.currentStoreData.set
                   /\ S.currentStoreData.state = S.apollo
      S1 == [S EXCEPT !.currentStoreData = [set |-> TRUE, state |-> S.apollo]]
      seen == [S.apollo EXCEPT !.data = S.currentStoreData.state.data]
  IN IF unchanged THEN S1
     ELSE [BroadcastQueries([S1 EXCEPT !.apollo = seen])
             EXCEPT !.apollo = S.apollo]

\* a subscriber that broadcasts on every notification
StoreSubscriberAlways(S) ==
  BroadcastQueries([S EXCEPT !.currentStoreData =
                      [set |-> TRUE, state |-> S.apollo]])

\* The callback the constructor subscribes to the state container: it
\* broadcasts unless the state is the one it saw last.
StoreSubscriber(S) ==
  LET previousStoreHasData == S.currentStoreData.set
      unchanged == S.currentStoreData.set
                   /\ S.currentStoreData.state = S.apollo
      S1 == [S EXCEPT !.currentStoreData = [set |-> TRUE, state |-> S.apollo]]
  IN IF unchanged /\ previousStoreHasData THEN S1 ELSE BroadcastQueries(S1)

\* store.dispatch: the reducer runs, then the subscribers are notified
Dispatch(S, action) ==
  StoreSubscriber([S EXCEPT !.apollo = ApolloReducer(S.apollo, action)])

\* ------------------------------------------------------------ the fetch
NoRead == [ok |-> FALSE, data |-> EmptyData]

QueryInitAction(queryId, opts, minimizedQuery, requestId) ==
  [type |-> "APOLLO_QUERY_INIT", query |-> opts.query,
   minimizedQuery |-> minimizedQuery, variables |-> opts.variables,
   forceFetch |-> opts.forceFetch,
   returnPartialData |-> opts.returnPartialData,
   queryId |-> queryId, requestId |-> requestId]

\* a client result that always reports the query as still to be completed
QueryResultClientActionIncomplete(queryId, minimizedQuery) ==
  [type |-> "APOLLO_QUERY_RESULT_CLIENT", complete |-> TRUE,
   queryId |-> queryId]

QueryResultClientAction(queryId, minimizedQuery) ==
  [type |-> "APOLLO_QUERY_RESULT_CLIENT",
   complete |-> (minimizedQuery # NoSelection), queryId |-> queryId]

\* a request id taken from a counter of its own, which stays at 1
generateRequestIdOwnCounter(S) == 1

generateRequestId(S) == S.idCounter

\* the variables an operation declares: one for every root field it selects
VariableDefinitions(query) == {<<"$", f>> : f \in query}

\* queryDocument: an operation with the given selections and declarations
QueryDocument(selectionSet, variableDefinitions) ==
  [selectionSet |-> selectionSet, variableDefinitions |-> variableDefinitions]

\* a minimized document that is the whole original whenever anything is missing
MinimizedQueryDocWhole(data, opts) ==
  IF opts.forceFetch \/ MissingSelection(data, opts.query, opts.variables) # {}
  THEN QueryDocument(opts.query, VariableDefinitions(opts.query))
  ELSE QueryDocument(NoSelection, VariableDefinitions(opts.query))

\* minimizedQueryDoc: the original document with forceFetch, else the
\* document of the missing selections under the original declarations
\* (selecting nothing stands for null)
MinimizedQueryDoc(data, opts) ==
  IF opts.forceFetch
  THEN QueryDocument(opts.query, VariableDefinitions(opts.query))
  ELSE QueryDocument(MissingSelection(data, opts.query, opts.variables),
                     VariableDefinitions(opts.query))

\* a batcher that is never told to batch
NewBatcherNeverBatches(shouldBatch) ==
  [shouldBatch |-> FALSE, queuedRequests |-> <<>>]

\* new QueryBatcher({ shouldBatch, networkInterface })
NewBatcher(shouldBatch) ==
  [shouldBatch |-> shouldBatch, queuedRequests |-> <<>>]

\* QueryBatcher.consumeQueue: one batchQuery call for the whole queue when
\* batching, one query call per queued request otherwise
consumeQueue(S) ==
  LET queue == S.batcher.queuedRequests
  IN IF queue = <<>> THEN S
     ELSE IF S.batcher.shouldBatch
       THEN [S EXCEPT !.transport =
                        Append(@, [kind |-> "batchQuery", requests |-> queue]),
                      !.batcher.queuedRequests = <<>>]
       ELSE [S EXCEPT !.transport =
                        @ \o [i \in 1..Len(queue) |->
                                [kind |-> "query", requests |-> <<queue[i]>>]],
                      !.batcher.queuedRequests = <<>>]

\* QueryBatcher.enqueueRequest: without batching the queue is consumed at once
enqueueRequest(S, r) ==
  LET S1 == [S EXCEPT !.batcher.queuedRequests = Append(@, r)]
  IN IF S.batcher.shouldBatch THEN S1 ELSE consumeQueue(S1)

\* fetchQueryOverInterface, up to the hand-over of the request to the batcher
FetchQuery(S, queryId, opts) ==
  LET minimizedQueryDoc == MinimizedQueryDoc(S.apollo.data, opts)
      minimizedQuery == minimizedQueryDoc.selectionSet
      initialResult ==
        IF opts.forceFetch THEN NoRead
        ELSE [ok |-> TRUE,
              data |-> PartialResult(S.apollo.data, opts.query, opts.variables)]
      requestId == generateRequestId(S)
      S1 == [S EXCEPT !.idCounter = @ + 1]
      S2 == Dispatch(S1, QueryInitAction(queryId, opts, minimizedQuery, requestId))
      S3 == IF minimizedQuery = NoSelection \/ opts.returnPartialData
            THEN Dispatch(S2, QueryResultClientAction(queryId, minimizedQuery))
            ELSE S2
      request == [kind |-> "query", queryId |-> queryId, query |-> opts.query,
                  minimizedQuery |-> minimizedQuery,
                  document |-> minimizedQueryDoc,
                  variables |-> opts.variables,
                  returnPartialData |-> opts.returnPartialData,
                  forceFetch |-> opts.forceFetch,
                  status |-> "inflight", promise |-> "pending",
                  error |-> Null, result |-> NoRead]
  IN IF minimizedQuery # NoSelection
     THEN enqueueRequest(
            [S3 EXCEPT !.fetchQueryPromises = Put(@, queryId, requestId),
                       !.requests = Put(@, requestId, request)],
            requestId)
     ELSE [S3 EXCEPT !.requests =
             Put(@, requestId, [request EXCEPT !.status = "cached",
                                               !.promise = "resolved",
                                               !.result = initialResult])]

removeFetchQueryPromise(S, queryId) ==
  [S EXCEPT !.fetchQueryPromises = Del(@, queryId)]

\* a result action stamped with the counter's value instead of the request's id
QueryResultActionLatestId(S, r, result) ==
  [type |-> "APOLLO_QUERY_RESULT", result |-> result,
   queryId |-> S.requests[r].queryId, requestId |-> S.idCounter]

QueryResultAction(S, r, result) ==
  [type |-> "APOLLO_QUERY_RESULT", result |-> result,
   queryId |-> S.requests[r].queryId, requestId |-> r]

\* a failure that resets the store instead of recording the error
QueryErrorActionResets(S, r) ==
  [type |-> "APOLLO_STORE_RESET", error |-> "NetworkError",
   queryId |-> S.requests[r].queryId, requestId |-> r]

QueryErrorAction(S, r) ==
  [type |-> "APOLLO_QUERY_ERROR", error |-> "NetworkError",
   queryId |-> S.requests[r].queryId, requestId |-> r]

\* callbacks that resolve with the selection that was fetched, not the original
OnQueryResultDelta(S, r, result) ==
  LET req == S.requests[r]
      action == QueryResultAction(S, r, result)
      S1 == removeFetchQueryPromise(Dispatch(S, action), req.queryId)
      read == ReadSelectionSet(S1.apollo.data, req.minimizedQuery,
                               req.variables, req.returnPartialData)
      pending == req.promise = "pending"
  IN [S1 EXCEPT !.requests[r] =
        [req EXCEPT !.status = IF Stale(S.apollo.queries, action)
                                 THEN "discarded"
                               ELSE IF result.errors # Null THEN "errors"
                               ELSE "applied",
                    !.promise = IF pending THEN "resolved" ELSE @,
                    !.result = IF pending THEN read ELSE @]]

\* the two .then callbacks of the fetch: the transport answered request r
OnQueryResult(S, r, result) ==
  LET req == S.requests[r]
      action == QueryResultAction(S, r, result)
      S1 == removeFetchQueryPromise(Dispatch(S, action), req.queryId)
      read == ReadSelectionSet(S1.apollo.data, req.query, req.variables,
                               req.returnPartialData)
      pending == req.promise = "pending"
  IN [S1 EXCEPT !.requests[r] =
        [req EXCEPT !.status = IF Stale(S.apollo.queries, action)
                                 THEN "discarded"
                               ELSE IF result.errors # Null THEN "errors"
                               ELSE "applied",
                    !.promise = IF pending THEN "resolved" ELSE @,
                    !.result = IF pending THEN read ELSE @]]

\* the .catch callback of the fetch: the transport failed for request r
OnQueryError(S, r) ==
  LET req == S.requests[r]
      S1 == removeFetchQueryPromise(Dispatch(S, QueryErrorAction(S, r)),
                                    req.queryId)
  IN [S1 EXCEPT !.requests[r] = [req EXCEPT !.status = "failed"]]

\* ---------------------------------------------------- stopping, reset
QueryStopAction(queryId) == [type |-> "APOLLO_QUERY_STOP", queryId |-> queryId]

\* a reset action whose type no reducer knows
StoreResetActionMistyped == [type |-> "APOLLO_STORE_RESE"]

StoreResetAction == [type |-> "APOLLO_STORE_RESET"]

\* a stopQuery that leaves the listener registered
StopQueryKeepsListener(S, queryId) ==
  LET S2 == IF TimerOf(S.pollingTimers, queryId) # NoTimer
            THEN [S EXCEPT !.armed = @ \ {S.pollingTimers[queryId]}]
            ELSE S
  IN Dispatch(S2, QueryStopAction(queryId))

\* stopQuery: the listener goes, the timer of the id is cleared, the record goes
StopQuery(S, queryId) ==
  LET S1 == [S EXCEPT !.queryListeners = @ \ {queryId}]
      S2 == IF TimerOf(S1.pollingTimers, queryId) # NoTimer
            THEN [S1 EXCEPT !.armed = @ \ {S1.pollingTimers[queryId]}]
            ELSE S1
  IN Dispatch(S2, QueryStopAction(queryId))

SetMin(ids) == CHOOSE x \in ids : \A y \in ids : x <= y

\* Object.keys(queryListeners).forEach(stopQuery): ascending key order
RECURSIVE StopQueries(_, _)
StopQueries(S, ids) ==
  IF ids = {} THEN S
  ELSE StopQueries(StopQuery(S, SetMin(ids)), ids \ {SetMin(ids)})

\* reject(new Error('Store reset while query was in flight.')) on every handle
RejectFetchQueryPromises(S) ==
  LET handles == {S.fetchQueryPromises[q] : q \in DOMAIN S.fetchQueryPromises}
  IN [S EXCEPT !.requests =
        [r \in DOMAIN S.requests |->
           IF r \in handles /\ S.requests[r].promise = "pending"
           THEN [S.requests[r] EXCEPT !.promise = "rejected",
                                      !.error = "Store reset"]
           ELSE S.requests[r]]]

Outstanding(reqs) ==
  {r \in DOMAIN reqs : reqs[r].kind = "query" /\ reqs[r].status = "inflight"
                       /\ reqs[r].promise = "pending"}

\* a reset that rejects the pending fetches and leaves queries and store alone
resetStoreRejectsOnly(S) == RejectFetchQueryPromises(S)

resetStore(S) ==
  LET S1 == RejectFetchQueryPromises(S)
      S2 == StopQueries(S1, S1.queryListeners)
  IN Dispatch(S2, StoreResetAction)

\* ------------------------------------------------- watchQuery / polling
AllWatchQueryOptions ==
  [query : Selections, variables : VariableValues, forceFetch : BOOLEAN,
   returnPartialData : BOOLEAN, pollInterval : PollIntervals,
   noFetch : BOOLEAN]

FlagsSet(o) ==
  (IF o.forceFetch THEN 1 ELSE 0) + (IF o.returnPartialData THEN 1 ELSE 0)
  + (IF o.pollInterval # 0 THEN 1 ELSE 0) + (IF o.noFetch THEN 1 ELSE 0)

\* the options watchQuery is called with: first variables, one flag at most
WatchQueryOptions ==
  {o \in AllWatchQueryOptions : o.variables = 1 /\ FlagsSet(o) <= 1}

generateQueryId(S) == S.idCounter

NewTimer(S) == Cardinality(DOMAIN S.timerQuery) + 1

\* setInterval for the polls of queryId
SetPollInterval(S, queryId) ==
  [S EXCEPT !.pollingTimers = Put(@, queryId, NewTimer(S)),
            !.armed = @ \cup {NewTimer(S)},
            !.timerQuery = Put(@, NewTimer(S), queryId)]

startQuery(S, opts) ==
  LET queryId == generateQueryId(S)
      S1 == [S EXCEPT !.idCounter = @ + 1,
                      !.queryListeners = @ \cup {queryId}]
      S2 == FetchQuery(S1, queryId, opts)
  IN IF opts.pollInterval # 0 THEN SetPollInterval(S2, queryId) ELSE S2

\* subscribing to watchQuery(opts): the subscription captures the timer
Subscribe(S, opts, hasErrorCb) ==
  LET queryId == generateQueryId(S)
      S0 == [S EXCEPT !.options = Put(@, queryId, opts),
                      !.errorCb = Put(@, queryId, hasErrorCb),
                      !.observer = Put(@, queryId, NewObserver)]
      S1 == startQuery(S0, opts)
  IN [S1 EXCEPT !.pollingTimer = Put(@, queryId, TimerOf(S1.pollingTimers, queryId))]

\* subscription.refetch(variables): variables = 0 stands for none given
refetch(S, queryId, variables) ==
  LET newOptions == [S.options[queryId] EXCEPT
                       !.forceFetch = TRUE,
                       !.variables = IF variables # 0 THEN variables ELSE @]
  IN FetchQuery([S EXCEPT !.options[queryId] = newOptions], queryId, newOptions)

\* a tick that writes forceFetch into the options of the subscription
PollingTickAssigns(S, t) ==
  LET queryId == S.timerQuery[t]
      pollingOptions == [S.options[queryId] EXCEPT !.forceFetch = TRUE]
  IN FetchQuery([S EXCEPT !.options[queryId] = pollingOptions],
                queryId, pollingOptions)

\* one tick of timer t
PollingTick(S, t) ==
  LET queryId == S.timerQuery[t]
      pollingOptions == [S.options[queryId] EXCEPT !.forceFetch = TRUE]
  IN FetchQuery(S, queryId, pollingOptions)

stopPolling(S, queryId) ==
  IF S.pollingTimer[queryId] # NoTimer
  THEN [S EXCEPT !.armed = @ \ {S.pollingTimer[queryId]}]
  ELSE S

startPolling(S, queryId) == SetPollInterval(S, queryId)

\* --------------------------------------------------------------- mutate
MutationInitAction(mutationId) ==
  [type |-> "APOLLO_MUTATION_INIT", mutationId |-> mutationId]

MutationResultAction(mutationId, result) ==
  [type |-> "APOLLO_MUTATION_RESULT", mutationId |-> mutationId,
   result |-> result]

mutate(S) ==
  LET mutationId == generateQueryId(S)
      S1 == Dispatch([S EXCEPT !.idCounter = @ + 1],
                     MutationInitAction(mutationId))
  IN [S1 EXCEPT !.requests =
        Put(@, mutationId,
            [kind |-> "mutation", queryId |-> mutationId, query |-> {},
             minimizedQuery |-> {}, document |-> QueryDocument({}, {}),
             variables |-> 0,
             returnPartialData |-> FALSE, forceFetch |-> FALSE,
             status |-> "inflight", promise |-> "pending",
             error |-> Null, result |-> NoRead])]

OnMutationResult(S, r, result) ==
  LET S1 == Dispatch(S, MutationResultAction(r, result))
  IN [S1 EXCEPT !.requests[r] =
        [@ EXCEPT !.status = "applied", !.promise = "resolved"]]

OnMutationError(S, r) ==
  [S EXCEPT !.requests[r] =
     [@ EXCEPT !.status = "failed", !.promise = "rejected",
               !.error = "NetworkError"]]

\* ---------------------------------------------------- fragment matchers
\* the type conditions of the fragments, and the concrete types of the data
TypeConditions == {"Person", "Droid", "Character"}
ObjectTypes == {"Person", "Droid"}
NoObject == "undefined"        \* context.store[idValue.id] is undefined
NoTypename == "untyped"        \* the stored object has no __typename
\* what context.store[idValue.id] can be: nothing, or an object's __typename
StoredObjects == {NoObject, NoTypename} \cup ObjectTypes

\* results of the introspection query: the types of __schema
IntrospectionData ==
  { { [kind |-> "INTERFACE", name |-> "Character",
       possibleTypes |-> {"Person", "Droid"}],
      [kind |-> "OBJECT", name |-> "Person", possibleTypes |-> {}] },
    { [kind |-> "UNION", name |-> "Character", possibleTypes |-> {"Person"}],
      [kind |-> "OBJECT", name |-> "Droid", possibleTypes |-> {}] } }

NoPossibleTypesMap == [t \in {} |-> {}]
NoIntrospectionData == {}      \* options.introspectionQueryResultData is undefined

parseIntrospectionResult(introspectionResultData) ==
  LET abstract == {t \in introspectionResultData :
                     t.kind \in {"UNION", "INTERFACE"}}
  IN [n \in {t.name : t \in abstract} |->
        (CHOOSE t \in abstract : t.name = n).possibleTypes]

\* match() that answers from the map whether the matcher is ready or not
IntrospectionMatchGuesses(m, obj, typeCondition) ==
  CASE obj = NoObject -> "false"
    [] obj = NoTypename -> "throws"
    [] obj = typeCondition -> "true"
    [] typeCondition \in DOMAIN m.possibleTypesMap
         /\ obj \in m.possibleTypesMap[typeCondition] -> "true"
    [] OTHER -> "false"

\* new IntrospectionFragmentMatcher({ introspectionQueryResultData: given })
NewIntrospectionFragmentMatcher(given) ==
  [given |-> given # NoIntrospectionData,
   isReady |-> given # NoIntrospectionData,
   readyPromise |-> "none",
   possibleTypesMap |-> IF given # NoIntrospectionData THEN parseIntrospectionResult(given)
                        ELSE NoPossibleTypesMap,
   logged |-> FALSE,
   inits |-> 0,          \* calls of init
   queries |-> 0,        \* introspection queries handed to the query manager
   returned |-> {}]      \* the promises init returned, each named by its query

\* an init that sends the introspection query on every call
initQueriesAgain(m) ==
  [m EXCEPT !.readyPromise = "pending",
            !.inits = @ + 1,
            !.queries = @ + 1,
            !.returned = @ \cup {m.queries + 1}]

\* IntrospectionFragmentMatcher.init(queryManager)
init(m) ==
  IF m.readyPromise # "none"
  THEN [m EXCEPT !.inits = @ + 1, !.returned = @ \cup {m.queries}]
  ELSE [m EXCEPT !.readyPromise = "pending",
                 !.inits = @ + 1,
                 !.queries = @ + 1,
                 !.returned = @ \cup {m.queries + 1}]

\* IntrospectionFragmentMatcher.match: "throws", "true" or "false"
IntrospectionMatch(m, obj, typeCondition) ==
  CASE ~m.isReady -> "throws"
    [] obj = NoObject -> "false"
    [] obj = NoTypename -> "throws"
    [] obj = typeCondition -> "true"
    [] typeCondition \in DOMAIN m.possibleTypesMap
         /\ obj \in m.possibleTypesMap[typeCondition] -> "true"
    [] OTHER -> "false"

\* HeuristicFragmentMatcher.match: what it returns, what it leaves in
\* context.returnPartialData, whether it warned, and the module's haveWarned
HeuristicMatch(obj, typeCondition, haveWarned, isTest) ==
  CASE obj = NoObject ->
         [outcome |-> "false", returnPartialData |-> FALSE,
          warned |-> FALSE, haveWarned |-> haveWarned]
    [] obj = NoTypename ->
         [outcome |-> "true", returnPartialData |-> TRUE,
          warned |-> ~haveWarned,
          haveWarned |-> haveWarned \/ ~isTest]
    [] obj = typeCondition ->
         [outcome |-> "true", returnPartialData |-> FALSE,
          warned |-> FALSE, haveWarned |-> haveWarned]
    [] OTHER ->
         [outcome |-> "true", returnPartialData |-> TRUE,
          warned |-> FALSE, haveWarned |-> haveWarned]

NoMatch == [kind |-> "none"]

\* no fragment matcher is in use
MatchersIdle ==
  /\ matcher = [introspection |-> NewIntrospectionFragmentMatcher(NoIntrospectionData),
                haveWarned |-> FALSE, isTest |-> TRUE]
  /\ matched = NoMatch

\* --------------------------------------------------------- store writer
\* The document written is  { author { id __typename isPrivate } }  as a
\* query or a mutation: the root selection set and the selection set of the
\* field author.  The value of author is one object or a list of objects.
RootSelectionSet == "{ author }"
AuthorSelectionSet == "{ id __typename isPrivate }"
RootIds == {"ROOT_QUERY", "ROOT_MUTATION"}
EntityTypes == {"Author", "Editor"}

\* the objects a result holds under author; id may be absent
ResultObjects ==
  [id : {"5", Null}, typename : EntityTypes, isPrivate : {"true", "false"}]

\* the values a result holds under author
ResultValues ==
  {[kind |-> "object", items |-> <<o>>] : o \in ResultObjects}
  \cup {[kind |-> "list", items |-> <<o1, o2>>] :
          o1 \in ResultObjects, o2 \in ResultObjects}

\* identity policies: keyed on __typename and id, keyed on id, none
IdentityPolicies == {"typenameAndId", "idOnly", "none"}

\* store values
Scalar(v) == [t |-> "scalar", v |-> v]
InlineObject(fields) == [t |-> "object", fields |-> fields]
ListValue(items) == [t |-> "list", items |-> items]
makeReference(dataId) == [t |-> "ref", id |-> dataId]

\* policies.identify(result, selectionSet, fragmentMap)
identify(policy, object) ==
  CASE policy.dataIdFromObject = "typenameAndId" /\ object.id # Null ->
         IF object.typename = "Author" THEN "Author__5" ELSE "Editor__5"
    [] policy.dataIdFromObject = "idOnly" /\ object.id # Null -> object.id
    [] OTHER -> Null

\* policies.rootTypenamesById[dataId]
rootTypenamesById(dataId) ==
  IF dataId = "ROOT_QUERY" THEN "Query" ELSE "Mutation"

NoFields == [k \in {} |-> Scalar(Null)]
NewEntityStore == [data |-> [d \in {} |-> NoFields], rootIds |-> {}]

\* store.get(dataId, fieldName)
storeGet(store, dataId, fieldName) ==
  IF dataId \in DOMAIN store.data /\ fieldName \in DOMAIN store.data[dataId]
  THEN store.data[dataId][fieldName]
  ELSE Scalar(Null)

\* the deep merge of two store values: objects merge key by key, lists
\* element by element, everything else is overwritten by the incoming value
RECURSIVE mergeValues(_, _)
mergeValues(existing, incoming) ==
  CASE existing.t = "object" /\ incoming.t = "object" ->
         InlineObject(
           [k \in DOMAIN existing.fields \cup DOMAIN incoming.fields |->
              IF k \notin DOMAIN incoming.fields THEN existing.fields[k]
              ELSE IF k \notin DOMAIN existing.fields THEN incoming.fields[k]
              ELSE mergeValues(existing.fields[k], incoming.fields[k])])
    [] existing.t = "list" /\ incoming.t = "list" ->
         ListValue(
           [i \in DOMAIN existing.items \cup DOMAIN incoming.items |->
              IF i \notin DOMAIN incoming.items THEN existing.items[i]
              ELSE IF i \notin DOMAIN existing.items THEN incoming.items[i]
              ELSE mergeValues(existing.items[i], incoming.items[i])])
    [] OTHER -> incoming

\* store.merge(dataId, incomingFields)
storeMerge(store, dataId, incomingFields) ==
  LET existing == IF dataId \in DOMAIN store.data THEN store.data[dataId]
                  ELSE NoFields
      fields == mergeValues(InlineObject(existing),
                            InlineObject(incomingFields)).fields
  IN [store EXCEPT !.data =
        [d \in DOMAIN store.data \cup {dataId} |->
           IF d = dataId THEN fields ELSE store.data[d]]]

\* store.retain(dataId)
storeRetain(store, dataId) ==
  [store EXCEPT !.rootIds = @ \cup {dataId}]

\* a context that forgets which selection sets were written
writtenSetsForgets(context, dataId) == {}

\* context.written[dataId]
writtenSets(context, dataId) ==
  IF dataId \in DOMAIN context.written THEN context.written[dataId] ELSE {}

\* the directive the document puts on the selection id of author: none,
\* @defer or @client
Directives == {Null, "defer", "client"}

\* hasDirectives(names, selection)
hasDirectives(names, directive) == directive \in names

\* a writer that skips every absent field
missingFieldSkipped(policy, directive) == FALSE

\* an absent field is an error: the else-if of the field branch
missingFieldThrows(policy, directive) ==
  policy.usingPossibleTypes /\ ~hasDirectives({"defer", "client"}, directive)

\* policies.hasMergeFunction(typename, fieldName): the type policies declare
\* a merge function for the field isPrivate of one type, or none
hasMergeFunction(policy, typename, fieldName) ==
  fieldName = "isPrivate" /\ policy.merge = typename

\* the merge function declared for isPrivate: what was private stays private
mergeIsPrivate(existing, incoming) ==
  IF existing = Scalar("true") THEN existing ELSE incoming

FieldValueToBeMerged(field, typename, value) ==
  [t |-> "tobemerged", field |-> field, typename |-> typename,
   value |-> value]

\* what the pass did, in order: a selection was processed, a value was
\* tagged, a merge function was invoked, an entity was merged into the store
Event(ev, id, field) == [ev |-> ev, id |-> id, field |-> field]

\* policies.applyMerges(existing, incoming, context): every tagged value is
\* replaced by what its merge function makes of the existing value and the
\* incoming one; the items of a list have no existing value
RECURSIVE applyMerges(_, _)
applyMerges(existing, incoming) ==
  CASE incoming.t = "tobemerged" -> mergeIsPrivate(existing, incoming.value)
    [] incoming.t = "object" ->
         InlineObject(
           [k \in DOMAIN incoming.fields |->
              applyMerges(IF existing.t = "object"
                             /\ k \in DOMAIN existing.fields
                          THEN existing.fields[k] ELSE Scalar(Null),
                          incoming.fields[k])])
    [] incoming.t = "list" ->
         ListValue([i \in DOMAIN incoming.items |->
                      applyMerges(Scalar(Null), incoming.items[i])])
    [] OTHER -> incoming

\* the merge functions applyMerges invokes for a value, one event each
RECURSIVE Invocations(_, _)
Invocations(dataId, incoming) ==
  CASE incoming.t = "tobemerged" -> <<Event("invoke", dataId, incoming.field)>>
    [] incoming.t = "object" ->
         LET keys == DOMAIN incoming.fields
         IN (IF "author" \in keys
             THEN Invocations(dataId, incoming.fields["author"]) ELSE <<>>)
            \o (IF "isPrivate" \in keys
                THEN Invocations(dataId, incoming.fields["isPrivate"])
                ELSE <<>>)
    [] incoming.t = "list" ->
         IF Len(incoming.items) = 0 THEN <<>>
         ELSE Invocations(dataId, Head(incoming.items))
              \o Invocations(dataId, ListValue(Tail(incoming.items)))
    [] OTHER -> <<>>

\* the end of processSelectionSet for an entity: applyMerges when a value was
\* tagged, then store.merge
mergeEntity(context, dataId, mergedFields) ==
  LET existing == IF dataId \in DOMAIN context.store.data
                  THEN InlineObject(context.store.data[dataId])
                  ELSE Scalar(Null)
      fields == IF context.shouldApplyMerges
                THEN applyMerges(existing, InlineObject(mergedFields)).fields
                ELSE mergedFields
      invoked == IF context.shouldApplyMerges
                 THEN Invocations(dataId, InlineObject(mergedFields))
                 ELSE <<>>
  IN [context EXCEPT
        !.store = storeMerge(context.store, dataId, fields),
        !.merges = Append(@, [dataId |-> dataId, fields |-> fields]),
        !.trace = (@ \o invoked) \o <<Event("merge", dataId, Null)>>]

\* a writer that runs the merge function as soon as it meets the field
mergeFieldValueNow(context, typename, fieldName, incomingValue) ==
  IF hasMergeFunction(context.policies, typename, fieldName)
  THEN [context |->
          [context EXCEPT
             !.trace = @ \o <<Event("tag", context.owner, fieldName),
                              Event("invoke", context.owner, fieldName)>>],
        value |-> mergeIsPrivate(
                    storeGet(context.store, context.owner, fieldName),
                    incomingValue)]
  ELSE [context |-> context, value |-> incomingValue]

\* a field with a merge function: its value is wrapped in a
\* FieldValueToBeMerged and out.shouldApplyMerges is set
tagFieldValue(context, typename, fieldName, incomingValue) ==
  IF hasMergeFunction(context.policies, typename, fieldName)
  THEN [context |->
          [context EXCEPT
             !.shouldApplyMerges = TRUE,
             !.trace = Append(@, Event("tag", context.owner, fieldName))],
        value |-> FieldValueToBeMerged(fieldName, typename, incomingValue)]
  ELSE [context |-> context, value |-> incomingValue]

\* a writer that never asks for the identity of a nested object
processSelectionSetInline(context, object) ==
  [context |-> context,
   value |-> InlineObject(
     [k \in {"isPrivate", "__typename"}
            \cup (IF object.id # Null THEN {"id"} ELSE {}) |->
        CASE k = "__typename" -> Scalar(object.typename)
          [] k = "id" -> Scalar(object.id)
          [] OTHER -> Scalar(object.isPrivate)])]

\* processSelectionSet({ result: object, selectionSet: the selection set of
\* author, context, out }): the context it leaves and the value it returns.
\* The context of the model carries, besides the fields of the WriteContext,
\* the out object the calls of one pass share (shouldApplyMerges), the
\* entity whose selection set is being processed (owner), the directive of
\* the selection id, and whether the pass has thrown.
processSelectionSet(context, object) ==
  LET dataId == identify(context.policies, object)
      sets == writtenSets(context, dataId)
      typename == IF object.typename # Null THEN object.typename
                  ELSE storeGet(context.store, dataId, "__typename").v
      c1 == IF dataId # Null
            THEN [context EXCEPT
                    !.written = [d \in DOMAIN context.written \cup {dataId} |->
                                   IF d = dataId
                                   THEN sets \cup {AuthorSelectionSet}
                                   ELSE context.written[d]],
                    !.owner = dataId]
            ELSE context
      c2 == [c1 EXCEPT
               !.trace = (@ \o (IF object.id # Null
                                THEN <<Event("selection", c1.owner, "id")>>
                                ELSE <<>>))
                         \o <<Event("selection", c1.owner, "__typename")>>]
      tagged == tagFieldValue(c2, typename, "isPrivate",
                              Scalar(object.isPrivate))
      c3 == [tagged.context EXCEPT
               !.trace = Append(@, Event("selection", c1.owner, "isPrivate"))]
      mergedFields ==
        [k \in {"isPrivate"}
               \cup (IF typename # Null THEN {"__typename"} ELSE {})
               \cup (IF object.id # Null THEN {"id"} ELSE {}) |->
           CASE k = "__typename" -> Scalar(typename)
             [] k = "id" -> Scalar(object.id)
             [] OTHER -> tagged.value]
  IN IF dataId # Null /\ AuthorSelectionSet \in sets
     THEN [context |-> context, value |-> makeReference(dataId)]
     ELSE IF object.id = Null
             /\ missingFieldThrows(context.policies, context.directive)
     THEN [context |-> [c1 EXCEPT !.threw = TRUE], value |-> Scalar(Null)]
     ELSE IF dataId # Null
     THEN [context |-> [mergeEntity(c3, dataId, mergedFields)
                          EXCEPT !.owner = context.owner],
           value |-> makeReference(dataId)]
     ELSE [context |-> c3, value |-> InlineObject(mergedFields)]

\* value.map(item => this.processFieldValue(item, field, context, out))
RECURSIVE processItems(_, _, _)
processItems(context, items, done) ==
  IF Len(done) = Len(items) \/ context.threw
  THEN [context |-> context, value |-> ListValue(done)]
  ELSE LET p == processSelectionSet(context, items[Len(done) + 1])
       IN processItems(p.context, items, Append(done, p.value))

\* processFieldValue(value, field, context, out) for the field author
processFieldValue(context, value) ==
  IF value.kind = "list"
  THEN processItems(context, value.items, <<>>)
  ELSE processSelectionSet(context, value.items[1])

\* writeQueryToStore({ query, result: { author: value }, dataId, store }),
\* the query putting the directive on id: the store it leaves, what the pass did in order, the value it made of
\* author, and whether it threw 'Missing field'
writeQueryToStore(policy, directive, store, dataId, value) ==
  LET context == [policies |-> policy,
                  store |-> storeRetain(store, dataId),
                  written |-> [d \in {dataId} |-> {RootSelectionSet}],
                  merges |-> <<>>,
                  trace |-> <<>>,
                  shouldApplyMerges |-> FALSE,
                  owner |-> dataId,
                  directive |-> directive,
                  threw |-> FALSE]
      p == processFieldValue(context, value)
      mergedFields == [k \in {"__typename", "author"} |->
                         IF k = "author" THEN p.value
                         ELSE Scalar(rootTypenamesById(dataId))]
      selected == [p.context EXCEPT
                     !.trace = Append(@, Event("selection", dataId, "author"))]
      done == mergeEntity(selected, dataId, mergedFields)
  IN IF p.context.threw
     THEN [store |-> p.context.store, merges |-> p.context.merges,
           trace |-> p.context.trace, returned |-> Scalar(Null),
           threw |-> TRUE]
     ELSE [store |-> done.store, merges |-> done.merges,
           trace |-> done.trace,
           returned |-> p.value,
           threw |-> FALSE]

\* ------------------------------------------------------- the work set
\* The selections of a document are nodes, told apart by their place in the
\* document.  The selection set under processing is  { x ...s2 },  the
\* fragment F is  { a ...s4 },  the fragment G is  { b ...s6 };  a document
\* says which fragment each of the spreads s2, s4 and s6 names, so that a
\* fragment may spread itself or the other one.
SelectionsOf == [root |-> <<1, 2>>, F |-> <<3, 4>>, G |-> <<5, 6>>]
Documents == [{2, 4, 6} -> {"F", "G"}]

\* a work set that takes every selection it is given, present or not
addAllAgain(order, selections) == order \o selections

\* selections.forEach(workSet.add, workSet): a Set keeps insertion order and
\* takes a value it holds no second time
RECURSIVE addAll(_, _)
addAll(order, selections) ==
  IF selections = <<>> THEN order
  ELSE addAll(IF \E i \in DOMAIN order : order[i] = Head(selections)
              THEN order ELSE Append(order, Head(selections)),
              Tail(selections))

\* no processSelectionSet call is under way
NoWorkSet ==
  [document |-> [n \in {} |-> "F"], matching |-> {}, order |-> <<>>,
   next |-> 1, visited |-> <<>>]

NoWrite == [dataId |-> Null, directive |-> Null, passes |-> 0]

\* no store writer is in use
WriterIdle ==
  /\ policies = [dataIdFromObject |-> "none", usingPossibleTypes |-> FALSE,
                 merge |-> Null]
  /\ entityStore = NewEntityStore
  /\ lastWrite = NoWrite
  /\ workSet = NoWorkSet

\* -------------------------------------------------------------- mergeDeep
\* Objects live in a heap, a sequence indexed by address, so that the
\* identity of an object is its address.  A value is a scalar or the
\* address of an object.
ScalarValue(v) == [t |-> "scalar", v |-> v]
ObjectAt(address) == [t |-> "obj", at |-> address]

\* the objects of the tests: two leaves, two objects that meet under the
\* key conflict, and the two sources a and b
TestObjects ==
  << [k \in {"name"} |-> ScalarValue("ay")],
     [k \in {"name"} |-> ScalarValue("bee")],
     [k \in {"fromA", "name"} |->
        IF k = "fromA" THEN ObjectAt(1) ELSE ObjectAt(2)],
     [k \in {"fromB"} |-> ObjectAt(2)],
     [k \in {"a", "conflict"} |->
        IF k = "a" THEN ObjectAt(1) ELSE ObjectAt(3)],
     [k \in {"b", "conflict"} |->
        IF k = "b" THEN ObjectAt(2) ELSE ObjectAt(4)] >>

\* the keys in the order Object.keys yields them
KeyOrder == <<"a", "b", "conflict", "fromA", "fromB", "name">>

\* target[key] = value
setKey(object, key, value) ==
  [k \in DOMAIN object \cup {key} |-> IF k = key THEN value ELSE object[k]]

\* a merge that writes into the object it is given
shallowCopyInPlace(st, address) ==
  [heap |-> st.heap, copies |-> st.copies, at |-> address]

\* the copy of an object the merge may write to: the object itself when this
\* merge made it, a fresh shallow copy otherwise
shallowCopyForMerge(st, address) ==
  IF address \in st.copies
  THEN [heap |-> st.heap, copies |-> st.copies, at |-> address]
  ELSE [heap |-> Append(st.heap, st.heap[address]),
        copies |-> st.copies \cup {Len(st.heap) + 1},
        at |-> Len(st.heap) + 1]

\* merges the keys of the object at source into the object at target, which
\* the merge owns
RECURSIVE mergeHelper(_, _, _, _)
mergeHelper(st, target, source, keys) ==
  IF keys = <<>> THEN st
  ELSE
    LET key == Head(keys)
        rest == Tail(keys)
        sourceValue == st.heap[source][key]
        targetValue == st.heap[target][key]
    IN IF key \notin DOMAIN st.heap[source]
       THEN mergeHelper(st, target, source, rest)
       ELSE IF key \notin DOMAIN st.heap[target]
       THEN mergeHelper(
              [st EXCEPT !.heap[target] = setKey(@, key, sourceValue)],
              target, source, rest)
       ELSE IF sourceValue = targetValue
       THEN mergeHelper(st, target, source, rest)
       ELSE IF sourceValue.t = "obj" /\ targetValue.t = "obj"
       THEN LET c == shallowCopyForMerge(st, targetValue.at)
                st2 == mergeHelper([heap |-> c.heap, copies |-> c.copies],
                                   c.at, sourceValue.at, KeyOrder)
            IN mergeHelper(
                 [st2 EXCEPT !.heap[target] = setKey(@, key, ObjectAt(c.at))],
                 target, source, rest)
       ELSE mergeHelper(
              [st EXCEPT !.heap[target] = setKey(@, key, sourceValue)],
              target, source, rest)

RECURSIVE mergeSources(_, _, _, _)
mergeSources(st, target, sources, i) ==
  IF i > Len(sources) THEN st
  ELSE mergeSources(mergeHelper(st, target, sources[i], KeyOrder),
                    target, sources, i + 1)

\* mergeDeep(...sources): the heap it leaves and the address of the result
mergeDeep(h, sources) ==
  IF Len(sources) = 1
  THEN [heap |-> h, result |-> sources[1]]
  ELSE LET c == shallowCopyForMerge([heap |-> h, copies |-> {}], sources[1])
           st == mergeSources([heap |-> c.heap, copies |-> c.copies],
                              c.at, sources, 2)
       IN [heap |-> st.heap, result |-> c.at]

\* mergeDeep is not in use
NoMerge == [sources |-> <<>>, called |-> FALSE]
MergeIdle ==
  /\ heap = <<>>
  /\ merged = NoMerge

ComponentsIdle == MatchersIdle /\ WriterIdle /\ MergeIdle

\* ---------------------------------------------------------- the machine
Constructed(shouldBatch) ==
  /\ idCounter = 0
  /\ queryListeners = {}
  /\ options = EmptyData
  /\ errorCb = EmptyData
  /\ pollingTimers = EmptyData
  /\ pollingTimer = EmptyData
  /\ armed = {}
  /\ timerQuery = EmptyData
  /\ fetchQueryPromises = EmptyData
  /\ requests = EmptyData
  /\ apollo = EmptyApolloState
  /\ currentStoreData = [set |-> FALSE, state |-> EmptyApolloState]
  /\ observer = EmptyData
  /\ batcher = NewBatcher(shouldBatch)
  /\ transport = <<>>
  /\ unsubscribed = {}
  /\ hostState = FALSE

\* new QueryManager({ networkInterface, store, reduxRootKey })
Init == Constructed(FALSE) /\ ComponentsIdle

\* observable.subscribe(observer) on watchQuery(opts)
WatchQuery ==
  \E opts \in WatchQueryOptions, hasErrorCb \in BOOLEAN :
    /\ FlagsSet(opts) # 0 => hasErrorCb
    /\ idCounter + 2 <= MaxId
    /\ Becomes(Subscribe(Cur, opts, hasErrorCb))
    /\ UNCHANGED <<unsubscribed, hostState, componentVars>>

\* the subscriptions the caller still holds
Subscribed == DOMAIN options \ unsubscribed

Refetch ==
  \E q \in Subscribed, v \in VariableValues \cup {0} :
    /\ idCounter + 1 <= MaxId
    /\ Becomes(refetch(Cur, q, v))
    /\ UNCHANGED <<unsubscribed, hostState, componentVars>>

PollTick ==
  \E t \in armed :
    /\ idCounter + 1 <= MaxId
    /\ Becomes(PollingTick(Cur, t))
    /\ UNCHANGED <<unsubscribed, hostState, componentVars>>

StopPolling ==
  \E q \in Subscribed :
    /\ Becomes(stopPolling(Cur, q))
    /\ UNCHANGED <<unsubscribed, hostState, componentVars>>

StartPolling ==
  \E q \in Subscribed :
    /\ NewTimer(Cur) <= MaxTimers
    /\ Becomes(startPolling(Cur, q))
    /\ UNCHANGED <<unsubscribed, hostState, componentVars>>

Unsubscribe ==
  \E q \in Subscribed :
    /\ Becomes(StopQuery(Cur, q))
    /\ unsubscribed' = unsubscribed \cup {q}
    /\ UNCHANGED <<hostState, componentVars>>

ResetStore ==
  /\ Becomes(resetStore(Cur))
  /\ UNCHANGED <<unsubscribed, hostState, componentVars>>

Mutate ==
  /\ idCounter + 1 <= MaxId
  /\ Becomes(mutate(Cur))
  /\ UNCHANGED <<unsubscribed, hostState, componentVars>>

\* the requests the batcher has handed to the network interface
SentRequests ==
  UNION {{transport[i].requests[j] : j \in 1..Len(transport[i].requests)} :
           i \in DOMAIN transport}

InFlight(kind) ==
  {r \in DOMAIN requests : /\ requests[r].kind = kind
                           /\ requests[r].status = "inflight"
                           /\ kind = "query" => r \in SentRequests}

\* the transport answers request r with data
QueryResponse ==
  \E r \in InFlight("query"), val \in Values :
    /\ Becomes(OnQueryResult(Cur, r, [data |-> val, errors |-> Null]))
    /\ UNCHANGED <<unsubscribed, hostState, componentVars>>

\* the transport answers request r with a non-empty errors list
QueryErrorsResponse ==
  \E r \in InFlight("query") :
    /\ Becomes(OnQueryResult(Cur, r, [data |-> NoValue, errors |-> "GraphQLErrors"]))
    /\ UNCHANGED <<unsubscribed, hostState, componentVars>>

\* the transport fails for request r
QueryNetworkFailure ==
  \E r \in InFlight("query") :
    /\ Becomes(OnQueryError(Cur, r))
    /\ UNCHANGED <<unsubscribed, hostState, componentVars>>

MutationResponse ==
  \E r \in InFlight("mutation"), val \in Values :
    /\ Becomes(OnMutationResult(Cur, r, [data |-> val, errors |-> Null]))
    /\ UNCHANGED <<unsubscribed, hostState, componentVars>>

MutationNetworkFailure ==
  \E r \in InFlight("mutation") :
    /\ Becomes(OnMutationError(Cur, r))
    /\ UNCHANGED <<unsubscribed, hostState, componentVars>>

Next ==
  \/ WatchQuery
  \/ Refetch
  \/ PollTick
  \/ StopPolling
  \/ Unsubscribe
  \/ ResetStore
  \/ Mutate
  \/ QueryResponse
  \/ QueryErrorsResponse
  \/ QueryNetworkFailure
  \/ MutationResponse
  \/ MutationNetworkFailure

Spec == Init /\ [][Next]_vars

\* The polling controls of a subscription, startPolling included.
NextPolling ==
  \/ WatchQuery
  \/ Refetch
  \/ PollTick
  \/ StopPolling
  \/ StartPolling
  \/ Unsubscribe
  \/ QueryResponse
  \/ QueryErrorsResponse
  \/ QueryNetworkFailure

SpecPolling == Init /\ [][NextPolling]_vars

\* new QueryManager({ ..., shouldBatch: true }) and the timer of its batcher
InitBatching == Constructed(TRUE) /\ ComponentsIdle

\* one tick of the batcher's timer
BatcherTick ==
  /\ batcher.queuedRequests # <<>>
  /\ Becomes(consumeQueue(Cur))
  /\ UNCHANGED <<unsubscribed, hostState, componentVars>>

NextBatching ==
  \/ WatchQuery
  \/ Refetch
  \/ BatcherTick
  \/ Unsubscribe
  \/ QueryResponse
  \/ QueryErrorsResponse
  \/ QueryNetworkFailure

SpecBatching == InitBatching /\ [][NextBatching]_vars

\* Two watched queries over one store, and a host application that
\* dispatches its own actions on the state container.
WatchQueryShared ==
  \E opts \in WatchQueryOptions :
    /\ idCounter + 2 <= MaxIdShared
    /\ Becomes(Subscribe(Cur, opts, TRUE))
    /\ UNCHANGED <<unsubscribed, hostState, componentVars>>

\* store.dispatch({ type: 'TOGGLE' }) by the host application
HostDispatch ==
  /\ Becomes(Dispatch(Cur, HostAction))
  /\ hostState' = HostReducer(hostState, HostAction)
  /\ UNCHANGED <<unsubscribed, componentVars>>

NextShared ==
  \/ WatchQueryShared
  \/ HostDispatch
  \/ Unsubscribe
  \/ QueryResponse
  \/ QueryErrorsResponse
  \/ QueryNetworkFailure

SpecShared == Init /\ [][NextShared]_vars

\* no listener ever throws out of a broadcast
NoListenerThrows == \A q \in DOMAIN observer : ~observer[q].threw

\* ------------------------------------------------------------ claims
\* the fetches for the query id of r that were issued after r
IssuedLater(r) ==
  {r2 \in DOMAIN requests : r2 > r /\ requests[r2].kind = "query"
                            /\ requests[r2].queryId = requests[r].queryId}

\* this step is the transport's answer to request r (data or errors)
Answered(r) ==
  /\ requests[r].status = "inflight"
  /\ requests'[r].status \in {"applied", "errors", "discarded"}

\* the requests this step issued for query id q
NewRequests(q) ==
  {r \in DOMAIN requests' \ DOMAIN requests : requests'[r].queryId = q}

\* C1: when two fetches for one query id overlap, the answer to the earlier
\* one is discarded - it changes neither the store nor what any observer has
\* received - whether it arrives before or after the answer to the later
\* one; the data answer to the fetch issued last is delivered to the
\* listener of the query.
C1_StaleResponseDiscarded ==
  [][\A r \in InFlight("query") :
       /\ (Answered(r) /\ IssuedLater(r) # {})
            => (apollo' = apollo /\ observer' = observer)
       /\ (Answered(r) /\ IssuedLater(r) = {}
           /\ requests'[r].status = "applied"
           /\ requests[r].queryId \in queryListeners)
            => /\ observer'[requests[r].queryId].next
                    = observer[requests[r].queryId].next + 1
               /\ observer'[requests[r].queryId].last
                    = [kind |-> "data",
                       data |-> PartialResult(apollo'.data, requests[r].query,
                                              requests[r].variables)]
               /\ DOMAIN observer'[requests[r].queryId].last.data
                    = requests[r].query]_vars

\* two overlapping fetches of a listened query were both answered, the
\* earlier one discarded, the later one delivered
C1_Witness ==
  \E r1 \in DOMAIN requests, r2 \in DOMAIN requests :
    /\ r1 < r2
    /\ requests[r1].kind = "query" /\ requests[r2].kind = "query"
    /\ requests[r1].queryId = requests[r2].queryId
    /\ requests[r1].queryId \in queryListeners
    /\ requests[r1].status = "discarded"
    /\ requests[r2].status = "applied"
    /\ observer[requests[r1].queryId].next = 1

\* C2: resetStore() rejects, with the store-reset error, the promise of
\* every fetch that is in flight when it is called.
C2_ResetRejectsEveryOutstandingFetch ==
  [][ResetStore =>
       \A r \in Outstanding(requests) :
         /\ requests'[r].promise = "rejected"
         /\ requests'[r].error = "Store reset"]_vars

\* C3: resetStore() issues exactly one refetch for every query that has a
\* listener and is not a noFetch query, and the query keeps its listener.
C3_ResetRefetchesActiveQueries ==
  [][ResetStore =>
       \A q \in queryListeners :
         ~options[q].noFetch =>
           /\ Cardinality(NewRequests(q)) = 1
           /\ q \in queryListeners']_vars

\* C4: resetStore() issues no refetch for a noFetch query and leaves it
\* registered with its listener.
C4_ResetLeavesNoFetchQueries ==
  [][ResetStore =>
       \A q \in queryListeners :
         options[q].noFetch =>
           /\ NewRequests(q) = {}
           /\ q \in queryListeners']_vars

\* C5: what resetStore() rejects and what it refetches is decided from the
\* state before the reset: the promises rejected are the pending handles of
\* the table as it was, the queries refetched are the queries that had a
\* listener and are not noFetch queries.
C5_ResetDecidesFromPreResetState ==
  [][ResetStore =>
       /\ {r \in DOMAIN requests : requests[r].promise = "pending"
                                   /\ requests'[r].promise = "rejected"}
            = {fetchQueryPromises[q] : q \in DOMAIN fetchQueryPromises}
              \cap {r \in DOMAIN requests : requests[r].promise = "pending"}
       /\ {requests'[r].queryId : r \in DOMAIN requests' \ DOMAIN requests}
            = {q \in queryListeners : ~options[q].noFetch}]_vars

\* C6: after resetStore() the Apollo state is the empty state.
C6_ResetEmptiesState == [][ResetStore => apollo' = EmptyApolloState]_vars

\* the state is empty although a result had been written to the store
C6_Witness ==
  /\ apollo = EmptyApolloState
  /\ \E r \in DOMAIN requests : requests[r].status = "applied"

\* C7: when the transport fails for a fetch its promise is rejected with the
\* network error.
C7_NetworkErrorRejectsPromise ==
  \A r \in DOMAIN requests :
    (requests[r].kind = "query" /\ requests[r].status = "failed")
      => (requests[r].promise = "rejected"
          /\ requests[r].error \in {"NetworkError", "Store reset"})

\* C8: when the transport answers a fetch with a non-empty errors list its
\* promise is rejected, never resolved.
C8_GraphQLErrorsRejectPromise ==
  \A r \in DOMAIN requests :
    (requests[r].kind = "query" /\ requests[r].status = "errors")
      => requests[r].promise = "rejected"

\* C9: issuing a forced fetch (refetch or poll tick) and the failure of a
\* fetch leave the entity data of the store as it was.
C9_FailedFetchKeepsData ==
  [][(Refetch \/ PollTick \/ QueryNetworkFailure)
       => apollo'.data = apollo.data]_vars

\* a forced fetch failed and the data an earlier fetch cached for the same
\* selection is in the store
C9_Witness ==
  \E r \in DOMAIN requests :
    /\ requests[r].kind = "query" /\ requests[r].forceFetch
    /\ requests[r].status = "failed"
    /\ \A f \in requests[r].query :
         <<f, requests[r].variables>> \in DOMAIN apollo.data

\* C10: once stopPolling() was called on a polling query and no fetch of it
\* is in flight, its observer receives no further result.
C10_NoResultAfterStopPolling ==
  [][\A q \in queryListeners :
       (/\ pollingTimer[q] # NoTimer
        /\ pollingTimer[q] \notin armed
        /\ \A r \in InFlight("query") : requests[r].queryId # q)
         => observer'[q].next = observer[q].next]_vars

\* this step is stopPolling() on the subscription of q
StopPollingOf(q) ==
  /\ Becomes(stopPolling(Cur, q))
  /\ UNCHANGED <<unsubscribed, hostState, componentVars>>

\* this step is unsubscribe() on the subscription of q
UnsubscribeOf(q) ==
  /\ Becomes(StopQuery(Cur, q))
  /\ unsubscribed' = unsubscribed \cup {q}
  /\ UNCHANGED <<hostState, componentVars>>

\* the armed timers that poll query id q
ArmedFor(timers, owner, q) == {t \in timers : owner[t] = q}

\* C11: after stopPolling() or unsubscribe() on a subscription no polling
\* timer of its query id remains armed (so no further poll is issued for
\* it), whatever startPolling()/stopPolling() calls came before.
C11_NoTimerAfterStopPolling ==
  [][\A q \in Subscribed :
       (StopPollingOf(q) \/ UnsubscribeOf(q))
         => ArmedFor(armed', timerQuery', q) = {}]_vars

\* C12: once a query is unsubscribed nothing is delivered to its observer
\* any more - the answer to a call that was in flight for it reaches neither
\* next nor error - and unsubscribing itself raises no error.
C12_UnsubscribedNeverNotified ==
  [][/\ \A q \in unsubscribed : observer'[q] = observer[q]
     /\ \A q \in Subscribed :
          UnsubscribeOf(q)
            => /\ q \notin queryListeners'
               /\ observer'[q] = observer[q]
               /\ \A p \in DOMAIN observer' : ~observer'[p].threw]_vars

\* the only fetch of an unsubscribed query was answered after the query was
\* stopped, and its observer never received anything
C12_Witness ==
  \E q \in unsubscribed, r \in DOMAIN requests :
    /\ requests[r].queryId = q
    /\ IssuedLater(r) = {}
    /\ requests[r].status = "discarded"
    /\ requests[r].promise = "resolved"
    /\ observer[q] = NewObserver

\* the query fetches this step issued
IssuedNow ==
  {r \in DOMAIN requests' \ DOMAIN requests : requests'[r].kind = "query"}

\* what the observer of query id q had received before this step
ObserverBefore(q) == IF q \in DOMAIN observer THEN observer[q] ELSE NewObserver

\* C13: a fetch without forceFetch whose selection is wholly in the store
\* hands nothing to the transport - no request in flight, no handle in the
\* promise table - and the cached result reaches the listener of the query
\* within the call, which resolves with that result.
C13_CachedFetchSkipsTransport ==
  [][\A r \in IssuedNow :
       (/\ ~requests'[r].forceFetch
        /\ MissingSelection(apollo.data, requests'[r].query,
                            requests'[r].variables) = {})
         => /\ requests'[r].status = "cached"
            /\ r \notin InFlight("query")'
            /\ fetchQueryPromises' = fetchQueryPromises
            /\ requests'[r].promise = "resolved"
            /\ requests'[r].result
                 = [ok |-> TRUE,
                    data |-> [f \in requests'[r].query |->
                                apollo.data[<<f, requests'[r].variables>>]]]
            /\ requests'[r].queryId \in queryListeners'
                 => /\ observer'[requests'[r].queryId].next
                         > ObserverBefore(requests'[r].queryId).next
                    /\ observer'[requests'[r].queryId].last
                         = [kind |-> "data",
                            data |-> requests'[r].result.data]]_vars

\* a watched query was served from what an earlier query had written: it was
\* never in flight and its observer holds the cached fields
C13_Witness ==
  \E r \in DOMAIN requests :
    /\ requests[r].kind = "query"
    /\ requests[r].status = "cached"
    /\ ~requests[r].forceFetch
    /\ requests[r].queryId \in queryListeners
    /\ observer[requests[r].queryId].next = 1
    /\ observer[requests[r].queryId].last.kind = "data"
    /\ DOMAIN observer[requests[r].queryId].last.data = requests[r].query
    /\ requests[r].query # {}

\* C14: the document handed to the transport selects exactly the fields the
\* store lacks when the fetch is not forced, and the whole original selection
\* when it is; either way it declares the variables of the original operation
\* and is sent with the variables of the fetch.
C14_SendsMissingSelections ==
  [][\A r \in IssuedNow :
       requests'[r].status = "inflight"
         => /\ requests'[r].document.selectionSet
                 = IF requests'[r].forceFetch THEN requests'[r].query
                   ELSE {f \in requests'[r].query :
                           <<f, requests'[r].variables>> \notin DOMAIN apollo.data}
            /\ requests'[r].document.variableDefinitions
                 = {<<"$", f>> : f \in requests'[r].query}
            /\ requests'[r].variables
                 = options'[requests'[r].queryId].variables]_vars

\* a fetch whose diff found part of its selection in the store sent a
\* document with the rest only, under both declarations of the original
C14_Witness ==
  \E r \in DOMAIN requests :
    /\ requests[r].kind = "query"
    /\ ~requests[r].forceFetch
    /\ requests[r].query = {"a", "b"}
    /\ requests[r].document.selectionSet = {"b"}
    /\ requests[r].document.variableDefinitions = {<<"$", "a">>, <<"$", "b">>}
    /\ requests[r].status = "applied"

\* C15: when the answer to a fetch is written to the store, the promise of
\* the fetch resolves with the whole original selection read back from the
\* store: the fields that were fetched carry the answer, the fields that
\* were cached before the fetch carry what the store held.
C15_ResolvesWithFullSelection ==
  [][\A r \in InFlight("query") :
       (Answered(r) /\ requests'[r].status = "applied"
        /\ requests[r].promise = "pending")
         => /\ requests'[r].promise = "resolved"
            /\ requests'[r].result.ok
            /\ DOMAIN requests'[r].result.data = requests[r].query
            /\ \A f \in requests[r].query :
                 requests'[r].result.data[f]
                   = apollo'.data[<<f, requests[r].variables>>]
            /\ \E val \in Values :
                 \A f \in requests[r].minimizedQuery :
                   requests'[r].result.data[f] = val
            /\ \A f \in requests[r].query \ requests[r].minimizedQuery :
                 requests'[r].result.data[f]
                   = apollo.data[<<f, requests[r].variables>>]]_vars

\* a fetch that sent part of its selection resolved with all of it, the
\* cached field and the fetched field holding different values
C15_Witness ==
  \E r \in DOMAIN requests :
    /\ requests[r].kind = "query"
    /\ requests[r].status = "applied"
    /\ requests[r].promise = "resolved"
    /\ requests[r].minimizedQuery = {"b"}
    /\ requests[r].result.ok
    /\ DOMAIN requests[r].result.data = {"a", "b"}
    /\ requests[r].result.data["a"] # requests[r].result.data["b"]

\* C16: when an answer, a failure, a stop or a host action changes the Apollo
\* state, every query that still has a listener has it invoked once with its
\* own record; a query that is loaded and free of errors is thereby delivered
\* its selection as the store now holds it, whichever query the write was for.
C16_EveryListenerBroadcast ==
  [][(apollo' # apollo /\ IssuedNow = {})
       => \A q \in queryListeners' :
            /\ q \in DOMAIN apollo'.queries
            /\ observer'[q]
                 = QueryListener(observer[q], TRUE, apollo'.queries[q],
                                 apollo'.data, options[q], errorCb[q])
            /\ (/\ ~apollo'.queries[q].loading
                /\ apollo'.queries[q].graphQLErrors = Null
                /\ apollo'.queries[q].networkError = Null)
                 => /\ observer'[q].next = observer[q].next + 1
                    /\ observer'[q].last
                         = [kind |-> "data",
                            data |-> [f \in options[q].query |->
                                        apollo'.data[<<f, options[q].variables>>]]]]_vars

\* a watcher whose own fetch wrote both of its fields at once holds two
\* different values: the later answer to another query overwrote one of them
C16_Witness ==
  \E r1 \in DOMAIN requests, r2 \in DOMAIN requests :
    /\ requests[r1].kind = "query" /\ requests[r2].kind = "query"
    /\ requests[r1].queryId # requests[r2].queryId
    /\ requests[r1].queryId \in queryListeners
    /\ requests[r1].minimizedQuery = {"a", "b"}
    /\ requests[r1].status = "applied"
    /\ requests[r2].status = "applied"
    /\ observer[requests[r1].queryId].next = 2
    /\ observer[requests[r1].queryId].last.kind = "data"
    /\ observer[requests[r1].queryId].last.data["a"]
         # observer[requests[r1].queryId].last.data["b"]

\* C17: an observer is called with a result only when that result differs
\* from the one it was delivered last; a change of the store that leaves the
\* result of a query as it was causes no next() for the query.
C17_NextOnlyOnChange ==
  [][\A q \in DOMAIN observer :
       observer'[q].next > observer[q].next
         => observer'[q].last # observer[q].last]_vars

\* C18: an action of the host application, which no reducer of the client
\* recognises, leaves the Apollo state as it was and reaches no observer.
C18_HostActionIsNoOp ==
  [][HostDispatch
       => /\ apollo' = apollo
          /\ observer' = observer
          /\ queryListeners' = queryListeners
          /\ requests' = requests]_vars

\* the host action was dispatched and the only watched query, answered once,
\* was delivered exactly one result
C18_Witness ==
  /\ hostState
  /\ \E q \in queryListeners :
       /\ DOMAIN options = {q}
       /\ ~apollo.queries[q].loading
       /\ observer[q].next = 1
       /\ observer[q].last.kind = "data"
       /\ \E r \in DOMAIN requests : requests[r].status = "applied"

C20_ErrorsReachErrorCallback ==
  [][\A r \in InFlight("query") :
       (/\ Answered(r)
        /\ requests'[r].status = "errors"
        /\ requests[r].queryId \in queryListeners)
         => /\ observer'[requests[r].queryId].error
                 = observer[requests[r].queryId].error + 1
            /\ observer'[requests[r].queryId].next
                 = observer[requests[r].queryId].next]_vars

\* this step is the transport's failure for r, the latest fetch of a query
\* that has a record and a listener
LatestFetchFailed(r) ==
  /\ requests[r].status = "inflight"
  /\ requests'[r].status = "failed"
  /\ requests[r].queryId \in queryListeners
  /\ requests[r].queryId \in DOMAIN apollo.queries
  /\ r >= apollo.queries[requests[r].queryId].lastRequestId

\* C21: when a watched query ends in a network error, an observer with an
\* error callback receives the error through it, an observer without one
\* has it logged through console.error; in neither case is next called or
\* anything thrown.
C21_NetworkErrorLoggedOrDelivered ==
  [][\A r \in InFlight("query") :
       LatestFetchFailed(r)
         => LET q == requests[r].queryId
            IN /\ observer'[q].next = observer[q].next
               /\ ~observer'[q].threw
               /\ IF errorCb[q]
                  THEN /\ observer'[q].error = observer[q].error + 1
                       /\ observer'[q].logged = observer[q].logged
                  ELSE /\ observer'[q].logged = observer[q].logged + 1
                       /\ observer'[q].error = observer[q].error]_vars

\* the only fetch of a query whose observer has no error callback failed:
\* the error was logged once, nothing was delivered and nothing thrown
C21_Witness ==
  \E q \in queryListeners, r \in DOMAIN requests :
    /\ ~errorCb[q]
    /\ requests[r].queryId = q
    /\ requests[r].status = "failed"
    /\ apollo.queries[q].networkError # Null
    /\ observer[q].logged = 1
    /\ observer[q].next = 0
    /\ observer[q].error = 0
    /\ ~observer[q].threw

\* C22: with batching enabled a fetch only joins the queue of the batcher -
\* it causes no transport call - and a tick of the batcher sends everything
\* queued since the tick before in one batchQuery call and empties the
\* queue, so that no call ever holds requests of two ticks.
C22_OneBatchPerTick ==
  [][/\ IssuedNow # {} =>
          /\ transport' = transport
          /\ \A r \in IssuedNow :
               requests'[r].status = "inflight"
                 => batcher'.queuedRequests
                      = Append(batcher.queuedRequests, r)
     /\ transport' # transport =>
          /\ batcher.queuedRequests # <<>>
          /\ transport' = Append(transport,
                                 [kind |-> "batchQuery",
                                  requests |-> batcher.queuedRequests])
          /\ batcher'.queuedRequests = <<>>
     /\ \A i \in DOMAIN transport, j \in DOMAIN transport :
          i # j => \A k \in DOMAIN transport[i].requests,
                      l \in DOMAIN transport[j].requests :
                     transport[i].requests[k] # transport[j].requests[l]]_vars

\* two fetches issued between two ticks went out in one batchQuery call
C22_Witness ==
  \E i \in DOMAIN transport :
    /\ transport[i].kind = "batchQuery"
    /\ Len(transport[i].requests) = 2
    /\ transport[i].requests[1] # transport[i].requests[2]
    /\ batcher.queuedRequests = <<>>

\* ------------------------------------------------- the fragment matchers
\* new IntrospectionFragmentMatcher(options) next to a HeuristicFragmentMatcher
\* module, in a test environment or not
InitMatchers ==
  /\ Constructed(FALSE)
  /\ \E given \in {NoIntrospectionData} \cup IntrospectionData, isTest \in BOOLEAN :
       matcher = [introspection |-> NewIntrospectionFragmentMatcher(given),
                  haveWarned |-> FALSE, isTest |-> isTest]
  /\ matched = NoMatch
  /\ WriterIdle
  /\ MergeIdle

\* fragmentMatcher.init(queryManager)
MatcherInit ==
  /\ matcher.introspection.inits < MaxInits
  /\ matcher' = [matcher EXCEPT !.introspection = init(@)]
  /\ UNCHANGED <<managerVars, writerVars, mergeVars, matched>>

\* the introspection query resolves: the .then of init
IntrospectionResult ==
  /\ matcher.introspection.readyPromise = "pending"
  /\ \E data \in IntrospectionData :
       matcher' = [matcher EXCEPT
                     !.introspection.possibleTypesMap =
                        parseIntrospectionResult(data),
                     !.introspection.isReady = TRUE,
                     !.introspection.readyPromise = "resolved"]
  /\ UNCHANGED <<managerVars, writerVars, mergeVars, matched>>

\* the introspection query fails: the .catch of init
IntrospectionFailure ==
  /\ matcher.introspection.readyPromise = "pending"
  /\ matcher' = [matcher EXCEPT !.introspection.logged = TRUE,
                                !.introspection.readyPromise = "rejected"]
  /\ UNCHANGED <<managerVars, writerVars, mergeVars, matched>>

\* the store reader asks the schema-driven matcher about a fragment
Match ==
  /\ \E obj \in StoredObjects, typeCondition \in TypeConditions :
       matched' = [kind |-> "introspection", obj |-> obj,
                   typeCondition |-> typeCondition,
                   given |-> matcher.introspection.given,
                   readyPromise |-> matcher.introspection.readyPromise,
                   outcome |-> IntrospectionMatch(matcher.introspection,
                                                  obj, typeCondition),
                   returnPartialData |-> FALSE, warned |-> FALSE]
  /\ UNCHANGED <<managerVars, writerVars, mergeVars, matcher>>

\* the store reader asks the heuristic matcher about a fragment
HeuristicMatchCall ==
  /\ \E obj \in StoredObjects, typeCondition \in TypeConditions :
       LET m == HeuristicMatch(obj, typeCondition, matcher.haveWarned,
                               matcher.isTest)
       IN /\ matched' = [kind |-> "heuristic", obj |-> obj,
                         typeCondition |-> typeCondition,
                         given |-> FALSE, readyPromise |-> "none",
                         outcome |-> m.outcome,
                         returnPartialData |-> m.returnPartialData,
                         warned |-> m.warned]
          /\ matcher' = [matcher EXCEPT !.haveWarned = m.haveWarned]
  /\ UNCHANGED <<managerVars, writerVars, mergeVars>>

NextMatchers ==
  \/ MatcherInit \/ IntrospectionResult \/ IntrospectionFailure
  \/ Match \/ HeuristicMatchCall

SpecMatchers == InitMatchers /\ [][NextMatchers]_vars

\* C23: match() of the schema-driven matcher throws whenever it is called
\* on a matcher that was given no introspection data at construction and
\* whose init has not completed successfully; it returns no boolean then.
C23_MatchBeforeReadyThrows ==
  (/\ matched.kind = "introspection"
   /\ ~matched.given
   /\ matched.readyPromise # "resolved")
  => matched.outcome = "throws"

\* match() was called on a typed object while the introspection query was
\* still in flight, and after it had failed
C23_Witness ==
  /\ matched.kind = "introspection"
  /\ ~matched.given
  /\ matched.readyPromise \in {"pending", "rejected"}
  /\ matched.obj \in ObjectTypes
  /\ matched.outcome = "throws"

\* C24: the heuristic matcher, given a stored object that carries a
\* __typename, returns true exactly when the __typename equals the type
\* condition of the fragment, and false for every other type condition.
C24_HeuristicExactTypeEquality ==
  (matched.kind = "heuristic" /\ matched.obj \in ObjectTypes)
  => (matched.outcome = "true" <=> matched.obj = matched.typeCondition)

\* ------------------------------------------------------ the store writer
\* new StoreWriter({ policies }) writing the results of one operation, a
\* query or a mutation, to an empty store
InitWriter ==
  /\ Constructed(FALSE)
  /\ MatchersIdle
  /\ MergeIdle
  /\ policies \in [dataIdFromObject : IdentityPolicies,
                   usingPossibleTypes : BOOLEAN, merge : {Null, "Author"}]
  /\ entityStore = NewEntityStore
  /\ \E dataId \in RootIds, directive \in Directives :
       lastWrite = [dataId |-> dataId, directive |-> directive, passes |-> 0]
  /\ workSet = NoWorkSet

\* writer.writeQueryToStore({ query, result: { author: value }, dataId, store })
WriteResult(value) ==
  /\ lastWrite.passes < MaxWrites
  /\ \E w \in {writeQueryToStore(policies, lastWrite.directive, entityStore,
                                  lastWrite.dataId, value)} :
       /\ entityStore' = w.store
       /\ lastWrite' = [dataId |-> lastWrite.dataId,
                        directive |-> lastWrite.directive,
                        passes |-> lastWrite.passes + 1,
                        value |-> value, merges |-> w.merges,
                        trace |-> w.trace, returned |-> w.returned,
                        threw |-> w.threw]
  /\ UNCHANGED <<managerVars, matcherVars, mergeVars, policies, workSet>>

WriteQuery == \E value \in ResultValues : WriteResult(value)

NextWriter == WriteQuery

SpecWriter == InitWriter /\ [][NextWriter]_vars

\* ------------------------------------------------- the work set, stepwise
\* processSelectionSet has made  new Set(selectionSet.selections)  for an
\* object of some type; matching holds the fragments policies.fragmentMatches
\* accepts for that type
InitWorkSet ==
  /\ Constructed(FALSE)
  /\ MatchersIdle
  /\ MergeIdle
  /\ policies = [dataIdFromObject |-> "none", usingPossibleTypes |-> FALSE,
                 merge |-> Null]
  /\ entityStore = NewEntityStore
  /\ lastWrite = NoWrite
  /\ \E document \in Documents, matching \in SUBSET {"F", "G"} :
       workSet = [document |-> document, matching |-> matching,
                  order |-> SelectionsOf["root"], next |-> 1,
                  visited |-> <<>>]

\* one call of the forEach callback: a field is processed, a spread of a
\* matching fragment adds the selections of the fragment to the work set
WorkSetStep ==
  /\ workSet.next <= Len(workSet.order)
  /\ LET selection == workSet.order[workSet.next]
         isField == selection \notin DOMAIN workSet.document
     IN workSet' =
          [workSet EXCEPT
             !.visited = Append(@, selection),
             !.next = @ + 1,
             !.order = IF ~isField
                          /\ workSet.document[selection] \in workSet.matching
                       THEN addAll(@, SelectionsOf[workSet.document[selection]])
                       ELSE @]
  /\ UNCHANGED <<managerVars, matcherVars, mergeVars, policies, entityStore,
                 lastWrite>>

\* forEach is a loop of one synchronous call: it goes on while the set holds
\* a selection it has not visited
SpecWorkSet == InitWorkSet /\ [][WorkSetStep]_vars /\ WF_vars(WorkSetStep)

\* the value the root written by the pass holds for item i of the result
StoredAt(store, dataId, value, i) ==
  IF value.kind = "list"
  THEN store.data[dataId]["author"].items[i]
  ELSE store.data[dataId]["author"]

\* item i is the first of the result with its identity
FirstOfItsId(value, i) ==
  \A j \in 1..(i - 1) :
    identify(policies, value.items[j]) # identify(policies, value.items[i])

\* a writeQueryToStore pass took place; lastWrite' holds its result value
WritePass == lastWrite'.passes = lastWrite.passes + 1

SameEntityTwice(value) ==
  /\ value.kind = "list"
  /\ identify(policies, value.items[1]) # Null
  /\ identify(policies, value.items[1]) = identify(policies, value.items[2])

\* C29: within one writeQueryToStore pass no dataId is merged into the
\* store twice with the same selection set; when the two items of a list
\* have the same dataId the second yields a Reference to it and is not
\* processed: the store is the one the pass leaves when the first item
\* stands in the place of the second.
C29_SecondWriteOfPairDoesNothing ==
  [][WritePass =>
       LET value == lastWrite'.value
           merges == lastWrite'.merges
       IN /\ \A i, j \in DOMAIN merges :
               i # j => merges[i].dataId # merges[j].dataId
          /\ SameEntityTwice(value) =>
               /\ lastWrite'.returned.items[2].t = "ref"
               /\ lastWrite'.returned.items[2].id =
                    identify(policies, value.items[1])
               /\ entityStore' =
                    writeQueryToStore(
                      policies, lastWrite.directive, entityStore,
                      lastWrite.dataId,
                      [kind |-> "list",
                       items |-> <<value.items[1], value.items[1]>>]).store]_vars

\* a pass wrote a list whose items have the same dataId and different
\* values of isPrivate: the entry holds the value of the first
C29_Witness ==
  /\ lastWrite.passes > 0
  /\ SameEntityTwice(lastWrite.value)
  /\ lastWrite.value.items[1].isPrivate = "true"
  /\ lastWrite.value.items[2].isPrivate = "false"
  /\ Len(lastWrite.merges) = 2
  /\ lastWrite.returned.items[2].t = "ref"
  /\ entityStore.data[lastWrite.returned.items[2].id]["isPrivate"] =
       Scalar("true")

\* C30: once the store entry of a dataId has a __typename, no write changes
\* it to a different value.
C30_TypenameNeverChanges ==
  [][WritePass =>
       \A d \in DOMAIN entityStore.data :
         "__typename" \in DOMAIN entityStore.data[d] =>
           entityStore'.data[d]["__typename"] =
             entityStore.data[d]["__typename"]]_vars

\* the operation name of the document of a watched query
OperationName(query) == IF query = {"a"} THEN "getA" ELSE "getAB"

\* the lists of names a caller may pass as refetchQueries
RefetchLists == {<<"getA">>, <<"getAB">>, <<"fakeQuery", "getA">>,
                 <<"fakeQuery", "getAB">>, <<"getA", "getAB">>}

\* C26: when the result of a mutation is written, every query named in the
\* refetchQueries the caller passed to mutate that has an active subscriber
\* is refetched, whether or not the list also holds an unknown name.
C26_RefetchQueriesAfterMutation ==
  [][\A r \in InFlight("mutation") :
       (requests'[r].status = "applied") =>
         \A refetchQueries \in RefetchLists :
           \A q \in Subscribed \cap queryListeners :
             (\E i \in DOMAIN refetchQueries :
                refetchQueries[i] = OperationName(options[q].query))
               => NewRequests(q) # {}]_vars

\* this step is observable.refetch(v) on subscription q
RefetchOf(q, v) ==
  /\ idCounter + 1 <= MaxId
  /\ Becomes(refetch(Cur, q, v))
  /\ UNCHANGED <<unsubscribed, hostState, componentVars>>

\* C28: refetch changes nothing in the options of the watched query except
\* variables: forceFetch, pollInterval, returnPartialData and query keep
\* the values they had.
C28_RefetchChangesOnlyVariables ==
  [][\A q \in Subscribed, v \in VariableValues \cup {0} :
       RefetchOf(q, v) =>
         [options'[q] EXCEPT !.variables = 0] =
           [options[q] EXCEPT !.variables = 0]]_vars

\* ------------------------------------------------------------ mergeDeep
\* the sequences of one to MaxSources addresses of the objects of the tests
SourceLists ==
  UNION {[1..n -> DOMAIN TestObjects] : n \in 1..MaxSources}

\* the objects of the tests and the sources of the call to come
InitMerge ==
  /\ Constructed(FALSE)
  /\ MatchersIdle
  /\ WriterIdle
  /\ heap = TestObjects
  /\ \E sources \in SourceLists :
       merged = [sources |-> sources, called |-> FALSE]

\* const c = mergeDeep(...sources)
MergeDeepCall ==
  LET m == mergeDeep(heap, merged.sources)
  IN /\ ~merged.called
     /\ heap' = m.heap
     /\ merged' = [sources |-> merged.sources, called |-> TRUE,
                   result |-> m.result]
     /\ UNCHANGED <<managerVars, matcherVars, writerVars>>

NextMerge == MergeDeepCall

SpecMerge == InitMerge /\ [][NextMerge]_vars

\* the result c of merging the objects a and b of heap h0 into heap h1
\* follows the law: a key one of them holds keeps its value, and with it
\* the identity of an object; a key at which both hold different objects
\* holds a fresh object that follows the law in turn; at any other key the
\* value of b stands
RECURSIVE MergeLaw(_, _, _, _, _)
MergeLaw(h0, h1, c, a, b) ==
  /\ c \notin DOMAIN h0
  /\ DOMAIN h1[c] = DOMAIN h0[a] \cup DOMAIN h0[b]
  /\ \A k \in DOMAIN h1[c] :
       IF k \notin DOMAIN h0[b] THEN h1[c][k] = h0[a][k]
       ELSE IF k \notin DOMAIN h0[a] THEN h1[c][k] = h0[b][k]
       ELSE IF h0[a][k] = h0[b][k] THEN h1[c][k] = h0[a][k]
       ELSE IF h0[a][k].t = "obj" /\ h0[b][k].t = "obj"
       THEN /\ h1[c][k].t = "obj"
            /\ MergeLaw(h0, h1, h1[c][k].at, h0[a][k].at, h0[b][k].at)
       ELSE h1[c][k] = h0[b][k]

\* the keys, at any depth, at which a and b hold different objects
RECURSIVE Conflicts(_, _, _)
Conflicts(h, a, b) ==
  LET here == {k \in DOMAIN h[a] \cap DOMAIN h[b] :
                 /\ h[a][k] # h[b][k]
                 /\ h[a][k].t = "obj" /\ h[b][k].t = "obj"}
      RECURSIVE Sum(_)
      Sum(ks) == IF ks = {} THEN 0
                 ELSE LET k == CHOOSE x \in ks : TRUE
                      IN 1 + Conflicts(h, h[a][k].at, h[b][k].at)
                           + Sum(ks \ {k})
  IN Sum(here)

\* C27: mergeDeep leaves its sources as they were; a key that one source
\* alone holds keeps the identity of its value in the result; merging two
\* sources makes a fresh object for the result and one at every key, at any
\* depth, where both hold an object, and no other.
C27_MergeKeepsIdentity ==
  [][(~merged.called /\ merged'.called) =>
       LET sources == merged'.sources
           c == merged'.result
       IN /\ \A x \in DOMAIN heap : heap'[x] = heap[x]
          /\ \A i \in DOMAIN sources : \A k \in DOMAIN heap[sources[i]] :
               (\A j \in DOMAIN sources :
                  j # i => k \notin DOMAIN heap[sources[j]])
                 => heap'[c][k] = heap[sources[i]][k]
          /\ Len(sources) = 2 =>
               /\ MergeLaw(heap, heap', c, sources[1], sources[2])
               /\ Len(heap') - Len(heap) =
                    1 + Conflicts(heap, sources[1], sources[2])]_vars

\* the two sources of the tests were merged: the result is new, a and b of
\* the result are the objects of the sources, conflict is a new object that
\* holds the objects fromA and fromB of the sources
C27_Witness ==
  /\ merged.called
  /\ merged.sources = <<5, 6>>
  /\ merged.result = 7
  /\ heap[7]["a"] = ObjectAt(1)
  /\ heap[7]["b"] = ObjectAt(2)
  /\ heap[7]["conflict"].at \notin {3, 4}
  /\ heap[heap[7]["conflict"].at]["fromA"] = ObjectAt(1)
  /\ heap[heap[7]["conflict"].at]["fromB"] = ObjectAt(2)
  /\ heap[3] = TestObjects[3]

\* this step is a tick of timer t
PollTickOf(t) ==
  /\ idCounter + 1 <= MaxId
  /\ Becomes(PollingTick(Cur, t))
  /\ UNCHANGED <<unsubscribed, hostState, componentVars>>

\* C31: every tick of a polling timer issues one fetch for the query id of
\* the timer, with forceFetch = true and the other options of the
\* subscription, and leaves the options of every subscription as they were.
C31_PollTickCopiesOptions ==
  [][\A t \in armed :
       PollTickOf(t) =>
         LET q == timerQuery[t]
         IN /\ options' = options
            /\ Cardinality(NewRequests(q)) = 1
            /\ \A r \in NewRequests(q) :
                 /\ requests'[r].forceFetch
                 /\ requests'[r].query = options[q].query
                 /\ requests'[r].variables = options[q].variables]_vars

\* a timer ticked for a subscription made without forceFetch: a forced fetch
\* is in flight and the options still say forceFetch = false
C31_Witness ==
  \E q \in DOMAIN options, r \in DOMAIN requests :
    /\ ~options[q].forceFetch
    /\ options[q].pollInterval # 0
    /\ requests[r].queryId = q
    /\ requests[r].kind = "query"
    /\ requests[r].forceFetch
    /\ requests[r].status = "inflight"

\* C32: however many times init is called, and in whatever state of the
\* first introspection query, the query is issued at most once and every
\* call returns the same promise.
C32_InitQueriesOnce ==
  /\ matcher.introspection.queries <= 1
  /\ Cardinality(matcher.introspection.returned) <= 1
  /\ matcher.introspection.inits > 0 => matcher.introspection.queries = 1

\* init was called a second time while the introspection query of the first
\* call was still in flight
C32_Witness ==
  /\ matcher.introspection.inits = 2
  /\ matcher.introspection.readyPromise = "pending"
  /\ matcher.introspection.queries = 1
  /\ matcher.introspection.returned = {1}

\* C36: the ids issued so far - query ids, request ids and mutation ids -
\* are the values 0 .. idCounter - 1 of the one counter, each issued once:
\* no id is both a query id and a request id, so every id issued next is
\* greater than every id issued before; the counter never goes back.
C36_IdsIssuedOnceInOrder ==
  [][/\ DOMAIN options \cap DOMAIN requests = {}
     /\ DOMAIN options \cup DOMAIN requests = 0..(idCounter - 1)
     /\ idCounter' >= idCounter
     /\ \A r \in (DOMAIN requests' \cup DOMAIN options')
                   \ (DOMAIN requests \cup DOMAIN options) :
          r >= idCounter]_vars

\* a mutation was sent, then a query started: the mutation id, the query
\* id and the request id of the first fetch are 0, 1 and 2
C36_Witness ==
  /\ idCounter = 3
  /\ DOMAIN requests = {0, 2}
  /\ DOMAIN options = {1}
  /\ requests[0].kind = "mutation"
  /\ requests[2].kind = "query" /\ requests[2].queryId = 1

C38_TableHoldsEveryUnsettledFetch ==
  \A r \in DOMAIN requests :
    (requests[r].kind = "query" /\ requests[r].status = "inflight")
      => requests[r].queryId \in DOMAIN fetchQueryPromises

\* C39 as stated: after resetStore has rejected an in-flight fetch, no result
\* update for that fetch is dispatched.  The statuses applied, errors and
\* discarded are set by the .then of the fetch alone, which dispatches
\* APOLLO_QUERY_RESULT before anything else.
C39_NoResultDispatchedAfterReset ==
  [][\A r \in InFlight("query") :
       requests[r].promise = "rejected" => ~Answered(r)]_vars

\* C39: the late response of a fetch that resetStore has rejected is
\* dispatched and discarded: the store, the query records and what every
\* observer has received are as they were before the response, and the
\* rejected promise stays rejected.
C39_LateResponseDiscarded ==
  [][\A r \in InFlight("query") :
       (requests[r].promise = "rejected" /\ Answered(r)) =>
         /\ requests'[r].status = "discarded"
         /\ requests'[r].promise = "rejected"
         /\ apollo' = apollo
         /\ observer' = observer]_vars

\* a fetch was rejected by a reset, the query was fetched again afterwards,
\* and the late answer to the rejected fetch arrived and was discarded
C39_Witness ==
  \E r \in DOMAIN requests :
    /\ requests[r].kind = "query"
    /\ requests[r].promise = "rejected"
    /\ requests[r].error = "Store reset"
    /\ requests[r].status = "discarded"
    /\ IssuedLater(r) # {}

\* C33: a write throws 'Missing field' exactly when the result lacks the
\* selected field id of an object, possible types are configured and the
\* selection carries neither @defer nor @client; in every other case the
\* pass completes: the value made of an object without id is an inline
\* object with its other fields and without id, it is stored inline, and the
\* root is merged last.
C33_MissingFieldIsAnErrorWhenStrict ==
  [][WritePass =>
       LET value == lastWrite'.value
           absent == {i \in DOMAIN value.items : value.items[i].id = Null}
           strict == /\ policies.usingPossibleTypes
                     /\ lastWrite.directive \notin {"defer", "client"}
       IN /\ lastWrite'.threw <=> (absent # {} /\ strict)
          /\ ~lastWrite'.threw =>
               /\ lastWrite'.merges[Len(lastWrite'.merges)].dataId
                    = lastWrite.dataId
               /\ \A i \in absent :
                    LET stored == StoredAt(entityStore', lastWrite.dataId,
                                           value, i)
                        incoming == IF value.kind = "list"
                                    THEN lastWrite'.returned.items[i]
                                    ELSE lastWrite'.returned
                    IN /\ incoming.t = "object"
                       /\ DOMAIN incoming.fields = {"__typename", "isPrivate"}
                       /\ stored.t = "object"
                       /\ stored.fields["__typename"]
                            = Scalar(value.items[i].typename)]_vars

\* with possible types configured and no directive on id, the pass over a
\* list of an object with id and an object without id threw
C33_Witness ==
  /\ policies.usingPossibleTypes
  /\ lastWrite.directive = Null
  /\ lastWrite.passes = 1
  /\ lastWrite.threw
  /\ lastWrite.value.kind = "list"
  /\ lastWrite.value.items[1].id = "5"
  /\ lastWrite.value.items[2].id = Null

\* no value tagged for a merge function is left in a store value
RECURSIVE Resolved(_)
Resolved(value) ==
  CASE value.t = "tobemerged" -> FALSE
    [] value.t = "object" ->
         \A k \in DOMAIN value.fields : Resolved(value.fields[k])
    [] value.t = "list" ->
         \A i \in DOMAIN value.items : Resolved(value.items[i])
    [] OTHER -> TRUE

\* C34: in the order of what a pass does, a field with a merge function is
\* tagged when it is met and its selection completes without the function
\* being invoked; the function is invoked once per tagged value (when the
\* pass does not throw), after the tag, after every selection of the
\* enclosing entity and before the one merge of that entity into the store.
\* The store never holds a tagged value, and the entry of a single
\* identified object holds what the function makes of the cached value and
\* the incoming one.
C34_MergePolicyRunsAfterSelectionSet ==
  [][WritePass =>
       LET T == lastWrite'.trace
           value == lastWrite'.value
           At(ev, d) == {i \in DOMAIN T : T[i].ev = ev /\ T[i].id = d}
       IN /\ \A i \in DOMAIN T :
               T[i].ev = "tag" =>
                 /\ i < Len(T)
                 /\ T[i + 1] = Event("selection", T[i].id, T[i].field)
                 /\ ~lastWrite'.threw =>
                      Cardinality(At("invoke", T[i].id))
                        = Cardinality(At("tag", T[i].id))
          /\ \A i \in DOMAIN T :
               T[i].ev = "invoke" =>
                 /\ \E j \in 1..(i - 1) : T[j] = Event("tag", T[i].id, T[i].field)
                 /\ \A j \in At("selection", T[i].id) : j < i
                 /\ \A j \in At("tag", T[i].id) : j < i
                 /\ \E j \in DOMAIN T : At("merge", T[i].id) = {j} /\ i < j
          /\ \A d \in DOMAIN entityStore'.data :
               Resolved(InlineObject(entityStore'.data[d]))
          /\ \A o \in {value.items[1]} :
               (/\ value.kind = "object"
                /\ identify(policies, o) # Null
                /\ hasMergeFunction(policies, o.typename, "isPrivate")) =>
                 entityStore'.data[identify(policies, o)]["isPrivate"]
                   = mergeIsPrivate(
                       storeGet(entityStore, identify(policies, o),
                                "isPrivate"),
                       Scalar(o.isPrivate))]_vars

\* isPrivate of Author has a merge function; a pass wrote a list of an
\* Author without identity and an identified Author that was private in the
\* store and is not in the result: the function was invoked for the entity
\* before its merge and for the inline object before the merge of the root,
\* and the entity is still private
C34_Witness ==
  /\ policies.merge = "Author"
  /\ lastWrite.passes = 2
  /\ ~lastWrite.threw
  /\ lastWrite.value.kind = "list"
  /\ lastWrite.value.items[1].id = Null
  /\ lastWrite.value.items[1].typename = "Author"
  /\ lastWrite.value.items[2] =
       [id |-> "5", typename |-> "Author", isPrivate |-> "false"]
  /\ lastWrite.returned.items[2].t = "ref"
  /\ entityStore.data[lastWrite.returned.items[2].id]["isPrivate"]
       = Scalar("true")
  /\ \E i, j \in DOMAIN lastWrite.trace :
       /\ i < j
       /\ lastWrite.trace[i] = Event("invoke", lastWrite.returned.items[2].id,
                                     "isPrivate")
       /\ lastWrite.trace[j] = Event("invoke", lastWrite.dataId, "isPrivate")

\* C40: a writeQueryToStore pass that throws 'Missing field' leaves the
\* store as it was before the call: no entity has been merged and no root
\* id has been retained.
C40_FailedWriteLeavesStoreUntouched ==
  [][(WritePass /\ lastWrite'.threw) =>
       /\ entityStore'.data = entityStore.data
       /\ entityStore'.rootIds = entityStore.rootIds]_vars

\* the selections reachable from a set of selections through the spreads of
\* matching fragments
RECURSIVE Closure(_)
Closure(nodes) ==
  LET more == nodes \cup UNION {
                {SelectionsOf[workSet.document[n]][i] : i \in 1..2} :
                  n \in {m \in nodes \cap DOMAIN workSet.document :
                           workSet.document[m] \in workSet.matching}}
  IN IF more = nodes THEN nodes ELSE Closure(more)

\* the forEach over the work set has returned
WorkSetDone == workSet.next > Len(workSet.order)

\* C35: the forEach over the work set of an object returns, whatever the
\* fragments spread; until then no selection has been visited twice, and
\* when it returns the selections visited are the selections of the
\* selection set and of every matching fragment reachable from it.
C35_WorkSetTerminates ==
  /\ [](/\ \A i, j \in DOMAIN workSet.visited :
            i # j => workSet.visited[i] # workSet.visited[j]
        /\ WorkSetDone =>
             {workSet.visited[i] : i \in DOMAIN workSet.visited}
               = Closure({1, 2}))
  /\ <>WorkSetDone

\* F spreads G, G spreads F and both match: the six selections were each
\* visited once and the forEach returned
C35_Witness ==
  /\ workSet.document = [n \in {2, 4, 6} |-> IF n = 4 THEN "G" ELSE "F"]
  /\ workSet.matching = {"F", "G"}
  /\ workSet.visited = <<1, 2, 3, 4, 5, 6>>
  /\ WorkSetDone

====
